---------------------------- MODULE Spec2Model ----------------------------
(***************************************************************************)
(* EduBot backend: the Provider Selector (app/llm_provider.py), the        *)
(* keyword search tools (app/tools.py), the agent loop (app/graph.py) and  *)
(* the chat endpoints that drive it (app/routers/chat_router.py).          *)
(*                                                                         *)
(* A Python string is a sequence of atoms.  An atom is one character, or   *)
(* a literal of the program's own messages kept as one symbol.  The text   *)
(* of files and of tool arguments is made of characters only, and so are   *)
(* the two phrases the program searches for with "in".                     *)
(* Python's None is the one-atom sequence None, which no string contains.  *)
(***************************************************************************)
EXTENDS Integers, Sequences, FiniteSets, TLC

(***************************************************************************)
(* Python values and string primitives                                     *)
(***************************************************************************)
None == <<"<None>">>

\* bool(v) of an Optional[str]: None and "" are falsy
Truthy(v) == v # None /\ v # <<>>

\* a or b
PyOr(a, b) == IF Truthy(a) THEN a ELSE b

UpperChars ==
  <<"A", "B", "C", "D", "E", "F", "G", "H", "I", "J", "K", "L", "M",
    "N", "O", "P", "Q", "R", "S", "T", "U", "V", "W", "X", "Y", "Z">>

LowerChars ==
  <<"a", "b", "c", "d", "e", "f", "g", "h", "i", "j", "k", "l", "m",
    "n", "o", "p", "q", "r", "s", "t", "u", "v", "w", "x", "y", "z">>

LowerAtom(a) ==
  IF \E i \in 1..26 : UpperChars[i] = a
  THEN LowerChars[CHOOSE i \in 1..26 : UpperChars[i] = a]
  ELSE a

\* str.lower()
Lower(s) == [i \in 1..Len(s) |-> LowerAtom(s[i])]

\* sub in s
Contains(sub, s) ==
  \E i \in 1..(Len(s) - Len(sub) + 1) : SubSeq(s, i, i + Len(sub) - 1) = sub

(***************************************************************************)
(* Provider Selector: app/llm_provider.py                                  *)
(***************************************************************************)
Providers == {"openai", "gemini", "ollama", "auto"}

DefaultOpenaiModel == <<"gpt-4">>
DefaultGeminiModel == <<"gemini-2.0-flash-exp">>
DefaultOllamaUrl   == <<"http://localhost:11434">>
DefaultOllamaModel == <<"l", "l", "a", "m", "a", "3", ".", "1", ":", "8", "b">>

\* LLMProvider.__init__: self._api_keys
InitApiKeys ==
  [openai       |-> None,
   openai_model |-> DefaultOpenaiModel,
   gemini       |-> None,
   gemini_model |-> DefaultGeminiModel,
   ollama_url   |-> DefaultOllamaUrl,
   ollama_model |-> DefaultOllamaModel]

\* LLMProvider.__init__: self.current_provider
InitProvider == "ollama"

\* the six optional headers of a chat request, none of them sent
NoHeaders ==
  [openai_key |-> None, openai_model |-> None, gemini_key |-> None,
   gemini_model |-> None, ollama_url |-> None, ollama_model |-> None]

\* LLMProvider.set_api_keys: a field is overwritten only by a truthy argument
SetApiKeys(keys, h) ==
  [openai       |-> IF Truthy(h.openai_key)   THEN h.openai_key   ELSE keys.openai,
   openai_model |-> IF Truthy(h.openai_model) THEN h.openai_model ELSE keys.openai_model,
   gemini       |-> IF Truthy(h.gemini_key)   THEN h.gemini_key   ELSE keys.gemini,
   gemini_model |-> IF Truthy(h.gemini_model) THEN h.gemini_model ELSE keys.gemini_model,
   ollama_url   |-> IF Truthy(h.ollama_url)   THEN h.ollama_url   ELSE keys.ollama_url,
   ollama_model |-> IF Truthy(h.ollama_model) THEN h.ollama_model ELSE keys.ollama_model]

\* the outcome of building a client: a client, or a raised ValueError
Client(kind, key, model, url) ==
  [raised |-> FALSE, error |-> "", kind |-> kind, key |-> key,
   model |-> model, url |-> url]

Raise(msg) ==
  [raised |-> TRUE, error |-> msg, kind |-> "none", key |-> None,
   model |-> None, url |-> None]

\* LLMProvider._get_openai; e.broken holds the remote providers whose client
\* constructor raises (ChatOpenAI(...) / ChatGoogleGenerativeAI(...))
GetOpenai(keys, e) ==
  LET api_key == PyOr(keys.openai, e.openai)
  IN  IF ~Truthy(api_key)
      THEN Raise("OPENAI_API_KEY not configured")
      ELSE IF "openai" \in e.broken THEN Raise("ChatOpenAI failed")
      ELSE Client("openai", api_key, PyOr(keys.openai_model, DefaultOpenaiModel), None)

\* LLMProvider._get_gemini
GetGemini(keys, e) ==
  LET api_key == PyOr(keys.gemini, e.gemini)
  IN  IF ~Truthy(api_key)
      THEN Raise("GOOGLE_API_KEY not configured")
      ELSE IF "gemini" \in e.broken THEN Raise("ChatGoogleGenerativeAI failed")
      ELSE Client("gemini", api_key, PyOr(keys.gemini_model, DefaultGeminiModel), None)

\* LLMProvider._get_ollama
GetOllama(keys) ==
  Client("ollama", None, PyOr(keys.ollama_model, DefaultOllamaModel),
         PyOr(keys.ollama_url, DefaultOllamaUrl))

\* _get_auto_provider without its last line: the last remote failure is returned
GetAutoProviderNoLocal(keys, e) ==
  LET o == GetOpenai(keys, e)
      g == GetGemini(keys, e)
  IN  IF Truthy(e.openai) /\ ~o.raised THEN o
      ELSE IF Truthy(keys.openai) /\ ~o.raised THEN o
      ELSE IF Truthy(e.gemini) /\ ~g.raised THEN g
      ELSE g

\* LLMProvider._get_auto_provider: four guarded attempts, each returning the
\* client unless the constructor raises, then the local provider
GetAutoProvider(keys, e) ==
  LET o == GetOpenai(keys, e)
      g == GetGemini(keys, e)
  IN  IF Truthy(e.openai) /\ ~o.raised THEN o
      ELSE IF Truthy(keys.openai) /\ ~o.raised THEN o
      ELSE IF Truthy(e.gemini) /\ ~g.raised THEN g
      ELSE IF Truthy(keys.gemini) /\ ~g.raised THEN g
      ELSE GetOllama(keys)

\* LLMProvider.get_llm with provider=None
GetLlm(provider, keys, e) ==
  CASE provider = "auto"   -> GetAutoProvider(keys, e)
    [] provider = "openai" -> GetOpenai(keys, e)
    [] provider = "gemini" -> GetGemini(keys, e)
    [] provider = "ollama" -> GetOllama(keys)
    [] OTHER               -> Raise("Invalid AI provider")

\* LLMProvider.supports_tools: non_tool_models
NonToolModels ==
  {<<"g", "e", "m", "m", "a">>, <<"p", "h", "i">>,
   <<"t", "i", "n", "y", "l", "l", "a", "m", "a">>,
   <<"s", "t", "a", "b", "l", "e", "l", "m">>}

\* supports_tools comparing the model name as configured, without .lower()
SupportsToolsCaseSensitive(provider, keys) ==
  CASE provider = "openai" -> TRUE
    [] provider = "gemini" -> TRUE
    [] provider = "ollama" ->
         ~\E nm \in NonToolModels : Contains(nm, keys.ollama_model)
    [] provider = "auto"   -> TRUE
    [] OTHER               -> FALSE

\* LLMProvider.supports_tools
SupportsTools(provider, keys) ==
  CASE provider = "openai" -> TRUE
    [] provider = "gemini" -> TRUE
    [] provider = "ollama" ->
         ~\E nm \in NonToolModels : Contains(nm, Lower(keys.ollama_model))
    [] provider = "auto"   -> TRUE
    [] OTHER               -> FALSE

(***************************************************************************)
(* Keyword search tools: app/tools.py                                      *)
(*                                                                         *)
(* A file is [name, readable, content]: content is the decoded text, and   *)
(* readable is FALSE when open()/read() raises (bytes that are not UTF-8). *)
(* A category directory is [exists, files], files in glob order.           *)
(***************************************************************************)
Whitespace == {" ", "\n", "\t"}

Digits == {"0", "1", "2", "3", "4", "5", "6", "7", "8", "9"}

\* let x = v in F(x), with v evaluated once
Bind(v, F(_)) == CHOOSE r \in {F(x) : x \in {v}} : TRUE

\* the elements of a finite set of integers in ascending order
SortedSeq(S) ==
  Bind(S, LAMBDA T :
    [k \in 1..Cardinality(T) |->
       CHOOSE x \in T : Cardinality({y \in T : y < x}) = k - 1] \o <<>>)

RECURSIVE Join(_, _)
\* sep.join(parts)
Join(parts, sep) ==
  IF parts = <<>> THEN <<>>
  ELSE IF Len(parts) = 1 THEN parts[1]
  ELSE parts[1] \o sep \o Join(Tail(parts), sep)

RECURSIVE Flatten(_)
\* "".join(parts)
Flatten(parts) ==
  IF parts = <<>> THEN <<>> ELSE parts[1] \o Flatten(Tail(parts))

\* str.split(): the maximal runs of non-whitespace
SplitWhitespace(s) ==
  LET EndOf(i) == CHOOSE j \in i..Len(s) :
                    /\ \A k \in i..j : s[k] \notin Whitespace
                    /\ (j = Len(s) \/ s[j + 1] \in Whitespace)
  IN  Bind(SortedSeq({i \in 1..Len(s) :
                        /\ s[i] \notin Whitespace
                        /\ (i = 1 \/ s[i - 1] \in Whitespace)}),
           LAMBDA ss : [k \in 1..Len(ss) |-> SubSeq(s, ss[k], EndOf(ss[k]))] \o <<>>)

\* str.strip()
Strip(s) ==
  Bind({i \in 1..Len(s) : s[i] \notin Whitespace}, LAMBDA keep :
    IF keep = {} THEN <<>>
    ELSE SubSeq(s, CHOOSE i \in keep : \A j \in keep : i <= j,
                   CHOOSE i \in keep : \A j \in keep : i >= j))

\* str.rstrip(',')
RStripComma(s) ==
  Bind({i \in 1..Len(s) : s[i] # ","}, LAMBDA keep :
    IF keep = {} THEN <<>>
    ELSE SubSeq(s, 1, CHOOSE i \in keep : \A j \in keep : i >= j))

\* str.isdigit()
IsDigit(s) == s # <<>> /\ \A i \in 1..Len(s) : s[i] \in Digits

\* f.readlines(): the lines of the text, each keeping its newline
ReadLines(content) ==
  Bind(SortedSeq({i \in 1..Len(content) : content[i] = "\n" \/ i = Len(content)}),
       LAMBDA es :
         [k \in 1..Len(es) |->
            SubSeq(content, IF k = 1 THEN 1 ELSE es[k - 1] + 1, es[k])] \o <<>>)

\* content.split('\n')
SplitNewline(content) ==
  Bind(SortedSeq({i \in 1..Len(content) : content[i] = "\n"}), LAMBDA ps :
    [k \in 1..(Len(ps) + 1) |->
       SubSeq(content, IF k = 1 THEN 1 ELSE ps[k - 1] + 1,
                       IF k = Len(ps) + 1 THEN Len(content) ELSE ps[k] - 1)] \o <<>>)

\* get_all_txt_files_in_category: category_dir.glob("*.txt")
IsTxt(name) == name # <<>> /\ name[Len(name)] = ".txt"

\* get_all_txt_files_in_category globbing "*" instead of "*.txt"
GetAllFilesInCategory(dir) ==
  IF ~dir.exists THEN <<>> ELSE dir.files

\* get_all_txt_files_in_category
GetAllTxtFilesInCategory(dir) ==
  IF ~dir.exists THEN <<>>
  ELSE SelectSeq(dir.files, LAMBDA f : IsTxt(f.name))

MonthNames ==
  {<<"j", "a", "n">>, <<"f", "e", "b">>, <<"m", "a", "r">>, <<"a", "p", "r">>,
   <<"m", "a", "y">>, <<"j", "u", "n">>, <<"j", "u", "l">>, <<"a", "u", "g">>,
   <<"s", "e", "p">>, <<"o", "c", "t">>, <<"n", "o", "v">>, <<"d", "e", "c">>}

\* search_file_content: the keywords kept from the query
KeepKeyword(kw) == IsDigit(kw) \/ Len(kw) > 2 \/ kw \in MonthNames

\* search_file_content keeping the trailing commas of a token
NormalTokenKeepingCommas(tok) == Lower(tok) \o <<>>

\* search_file_content: one token of the query, normalised
NormalToken(tok) ==
  Bind(Lower(tok) \o <<>>, LAMBDA low :
    Bind(Strip(low), LAMBDA stripped : RStripComma(stripped)))

\* search_file_content: keyword extraction with the whole-query fallback
Keywords(query) ==
  Bind(SplitWhitespace(query), LAMBDA toks :
    Bind(SelectSeq([k \in 1..Len(toks) |-> NormalToken(toks[k])] \o <<>>, KeepKeyword),
         LAMBDA kept : IF kept = <<>> THEN <<Lower(query) \o <<>>>> ELSE kept))

\* search_file_content: last_line before the first match
LastLineInit == -999

\* lines[j] of a Python list, 0-based, negative j counting from the end
PyIndexOk(lines, j) == -Len(lines) <= j /\ j < Len(lines)

PyIndex(lines, j) == IF j >= 0 THEN lines[j + 1] ELSE lines[Len(lines) + j + 1]

\* the state of the grouping loop of search_file_content
GroupState(sections, current, last, failed) ==
  [sections |-> sections, current |-> current, last |-> last, failed |-> failed]

\* lines[lo], ..., lines[hi]
Slice(lines, lo, hi) ==
  [k \in 1..(IF hi >= lo THEN hi - lo + 1 ELSE 0) |-> PyIndex(lines, lo + k - 1)] \o <<>>

\* one iteration of the grouping loop, for the matched line line_num; the
\* indices j a branch appends are those of its range() that pass its test,
\* which are consecutive
GroupStep(st, lines, line_num, c) ==
  IF st.failed THEN st
  ELSE IF line_num - st.last > c * 2
  THEN LET lo == IF line_num - c > 0 THEN line_num - c ELSE 0
           hi == IF line_num + c < Len(lines) - 1 THEN line_num + c
                                                  ELSE Len(lines) - 1
       IN  GroupState(
             IF st.current # <<>> THEN Append(st.sections, Flatten(st.current))
                                  ELSE st.sections,
             Slice(lines, lo, hi), line_num, FALSE)
  ELSE LET lo == IF c > 0 THEN st.last + c + 1 ELSE st.last + 1
           hi == IF line_num + c < Len(lines) - 1 THEN line_num + c
                                                  ELSE Len(lines) - 1
       IN  IF lo <= hi /\ ~PyIndexOk(lines, lo)
           THEN GroupState(st.sections, st.current, line_num, TRUE)
           ELSE GroupState(st.sections, st.current \o Slice(lines, lo, hi),
                           line_num, FALSE)

RECURSIVE GroupLoop(_, _, _, _, _)
\* the grouping loop over the sorted matched line numbers, from the k-th on
GroupLoop(st, lines, matched, c, k) ==
  IF k > Len(matched) THEN st
  ELSE Bind(GroupStep(st, lines, matched[k], c),
            LAMBDA next : GroupLoop(next, lines, matched, c, k + 1))

NotFoundPhrase ==
  <<"N", "o", " ", "r", "e", "l", "e", "v", "a", "n", "t", " ", "i", "n",
    "f", "o", "r", "m", "a", "t", "i", "o", "n", " ", "f", "o", "u", "n",
    "d">>

\* search_file_content: the 0-based numbers of the lines holding a keyword
MatchedLineNumbers(lines, kws) ==
  {i \in 0..(Len(lines) - 1) :
     Bind(Lower(lines[i + 1]) \o <<>>, LAMBDA line_lower :
       \E k \in 1..Len(kws) : Contains(kws[k], line_lower))}

\* search_file_content: the return value after the grouping loop
SearchResult(st, name, query) ==
  IF st.failed THEN <<"Error searching file: ", "list index out of range">>
  ELSE Bind(IF st.current # <<>> THEN Append(st.sections, Flatten(st.current))
                                 ELSE st.sections,
            LAMBDA sections :
              IF sections # <<>> THEN Join(sections, <<"\n---\n">>)
              ELSE NotFoundPhrase \o <<" in ">> \o name \o <<" for query: ">> \o query)

\* search_file_content
SearchFileContent(file, query, c) ==
  IF ~file.readable THEN <<"Error searching file: ", "<exception>">>
  ELSE
    Bind(ReadLines(file.content), LAMBDA lines :
      Bind(Keywords(query), LAMBDA kws :
        Bind(SortedSeq(MatchedLineNumbers(lines, kws)), LAMBDA matched :
          Bind(GroupLoop(GroupState(<<>>, <<>>, LastLineInit, FALSE),
                         lines, matched, c, 1),
               LAMBDA st : SearchResult(st, file.name, query)))))

Sentinel == <<"The related data is not present in the system.">>

\* the block of one file in an aggregating tool: none when the search result
\* holds the not-found phrase
Block(file, query, c, labelled) ==
  Bind(SearchFileContent(file, query, c), LAMBDA result :
    IF Contains(NotFoundPhrase, result) THEN <<>>
    ELSE IF labelled THEN << <<"From ">> \o file.name \o <<":", "\n">> \o result >>
    ELSE <<result>>)

RECURSIVE Blocks(_, _, _, _, _)
\* the results list of an aggregating tool, from the k-th file on
Blocks(files, query, c, labelled, k) ==
  IF k > Len(files) THEN <<>>
  ELSE Block(files[k], query, c, labelled) \o Blocks(files, query, c, labelled, k + 1)

\* search_university_info
SearchUniversityInfo(store, query) ==
  Bind(GetAllTxtFilesInCategory(store.Administrative), LAMBDA txt_files :
    IF txt_files = <<>>
    THEN <<"No administrative information files found. ">> \o Sentinel
    ELSE Bind(Blocks(txt_files, query, 5, TRUE, 1), LAMBDA results :
           IF results # <<>> THEN Join(results, <<"\n\n---\n\n">>)
           ELSE <<"No relevant administrative information found for query: ">>
                \o query \o <<". ">> \o Sentinel))

\* search_academic_calendar
SearchAcademicCalendar(store, query) ==
  Bind(GetAllTxtFilesInCategory(store.Academic), LAMBDA txt_files :
    IF txt_files = <<>>
    THEN <<"No academic calendar files found. ">> \o Sentinel
    ELSE Bind(Blocks(txt_files, query, 3, TRUE, 1), LAMBDA results :
           IF results # <<>> THEN Join(results, <<"\n\n---\n\n">>)
           ELSE <<"No relevant academic information found for query: ">>
                \o query \o <<". ">> \o Sentinel))

\* check_if_date_is_holiday
CheckIfDateIsHoliday(store, date_str) ==
  Bind(GetAllTxtFilesInCategory(store.Academic), LAMBDA txt_files :
    IF txt_files = <<>>
    THEN <<"No academic calendar files found. ">> \o Sentinel
    ELSE Bind(Blocks(txt_files,
                     date_str \o <<" ", "h", "o", "l", "i", "d", "a", "y">>,
                     2, FALSE, 1),
              LAMBDA results :
                IF results # <<>> THEN Join(results, <<"\n\n---\n\n">>)
                ELSE <<"No holiday information found for ">> \o date_str
                     \o <<". ">> \o Sentinel))

\* read_file_content
ReadFileContent(file) ==
  IF file.readable THEN file.content ELSE <<"Error reading file: ", "<exception>">>

ContactHeader ==
  <<"[", "C", "o", "n", "t", "a", "c", "t", " ", "I", "n", "f", "o", "r",
    "m", "a", "t", "i", "o", "n", "]">>

\* line.strip().startswith('[')
StartsWithBracket(line) ==
  Bind(Strip(line), LAMBDA t : t # <<>> /\ t[1] = "[")

\* get_university_contact_info: the lines collected after the header of one
\* file: those after the first header line, up to the first line that is not
\* a header line and starts with a bracket, header lines left out
ContactSection(lines) ==
  Bind({i \in 1..Len(lines) : Contains(ContactHeader, lines[i])}, LAMBDA heads :
    IF heads = {} THEN <<>>
    ELSE
      Bind(CHOOSE i \in heads : \A j \in heads : i <= j, LAMBDA first :
        Bind({i \in (first + 1)..Len(lines) :
                i \notin heads /\ StartsWithBracket(lines[i])},
             LAMBDA stops :
               Bind(IF stops = {} THEN Len(lines) + 1
                    ELSE CHOOSE i \in stops : \A j \in stops : i <= j,
                    LAMBDA stop :
                      SelectSeq([k \in 1..(stop - first - 1) |->
                                   <<first + k, lines[first + k]>>] \o <<>>,
                                LAMBDA p : p[1] \notin heads)))))

\* the second components of a sequence of pairs
Seconds(pairs) == [k \in 1..Len(pairs) |-> pairs[k][2]] \o <<>>

RECURSIVE ContactLoop(_, _, _)
\* get_university_contact_info: the loop over the files from the k-th on,
\* returning at the first file whose contact text holds the department
ContactLoop(files, department, k) ==
  IF k > Len(files)
  THEN <<"Contact information for '">> \o department \o <<"' not found. ">> \o Sentinel
  ELSE
    Bind(Seconds(ContactSection(SplitNewline(ReadFileContent(files[k])))),
         LAMBDA contact_section :
           Bind(Lower(department) \o <<>>, LAMBDA dept :
             IF Contains(dept, Lower(Join(contact_section, <<"\n">>)) \o <<>>)
             THEN Join(SelectSeq(contact_section,
                                 LAMBDA l : Contains(dept, Lower(l) \o <<>>)),
                       <<"\n">>)
             ELSE ContactLoop(files, department, k + 1)))

\* get_university_contact_info
GetUniversityContactInfo(store, department) ==
  Bind(GetAllTxtFilesInCategory(store.Administrative), LAMBDA txt_files :
    IF txt_files = <<>>
    THEN <<"No administrative files found. ">> \o Sentinel
    ELSE ContactLoop(txt_files, department, 1))

\* search_educational_resources
SearchEducationalResources(store, query) ==
  Bind(GetAllTxtFilesInCategory(store.Educational), LAMBDA txt_files :
    IF txt_files = <<>>
    THEN <<"No educational resource files found. ">> \o Sentinel
    ELSE Bind(Blocks(txt_files, query, 5, TRUE, 1), LAMBDA results :
           IF results # <<>> THEN Join(results, <<"\n\n---\n\n">>)
           ELSE <<"No relevant educational resources found for query: ">>
                \o query \o <<". ">> \o Sentinel))

ToolNames ==
  {"search_university_info", "search_academic_calendar", "check_if_date_is_holiday",
   "get_university_contact_info", "search_educational_resources"}

\* available_tools: the tool of a given name applied to its one argument
RunTool(store, name, arg) ==
  CASE name = "search_university_info"       -> SearchUniversityInfo(store, arg)
    [] name = "search_academic_calendar"     -> SearchAcademicCalendar(store, arg)
    [] name = "check_if_date_is_holiday"     -> CheckIfDateIsHoliday(store, arg)
    [] name = "get_university_contact_info"  -> GetUniversityContactInfo(store, arg)
    [] name = "search_educational_resources" -> SearchEducationalResources(store, arg)

(***************************************************************************)
(* State                                                                   *)
(***************************************************************************)
VARIABLES
  env,               \* os.environ: OPENAI_API_KEY, GOOGLE_API_KEY; broken constructors
  current_provider,  \* llm_provider.current_provider
  api_keys,          \* llm_provider._api_keys
  probe,             \* results of the latest direct calls on llm_provider
  docs,              \* the Document Store: category -> directory
  call,              \* the latest direct call of a search tool and its result
  reqs,              \* the HTTP requests being served, by connection
  chats,             \* table chats: id -> owner, archived
  threads,           \* the MemorySaver checkpointer: thread id -> history
  rows,              \* table messages: the persisted turns
  settings,          \* table settings: the ai_provider of each record
  uploads            \* the responses of POST /settings/upload, oldest first

provider_vars == <<env, current_provider, api_keys>>

chat_vars == <<reqs, chats, threads, rows, settings>>

vars == <<env, current_provider, api_keys, probe, docs, call,
          reqs, chats, threads, rows, settings, uploads>>

(***************************************************************************)
(* The state of the chat service before any request                        *)
(***************************************************************************)
Slots == {"r1", "r2"}

ChatIds == {"c1", "c2", "c3"}

\* the thread identifiers of the checkpointer: the chat ids, and the thread
\* of /chat/message requests that name no chat
AnonymousChat == "anonymous-chat"

ThreadIds == ChatIds \cup {AnonymousChat}

\* the authenticated user of each connection
UserOf(s) == IF s = "r1" THEN "u1" ELSE "u2"

NoLlm == Raise("not built")

\* MessageCreate.chat_id left out (None): falsy, like the empty string
NoChatId == ""

\* no model invocation yet
NoInput == [system |-> "none", tools |-> {}, messages |-> <<>>]

IdleRequest ==
  [pc |-> "idle", kind |-> "prompt", headers |-> NoHeaders, chat_id |-> NoChatId,
   message |-> <<>>, thread |-> NoChatId, msgs |-> <<>>, mode |-> "none",
   llm |-> NoLlm, agent_steps |-> 0, tool_runs |-> 0, status |-> 0,
   detail |-> <<>>, frames |-> <<>>, accumulated_answer |-> <<>>,
   input |-> NoInput]

\* one chat of user u1, no turn stored, no settings record
ChatInit ==
  /\ reqs = [s \in Slots |-> IdleRequest]
  /\ chats = [c \in ChatIds |->
                IF c = "c1" THEN [exists |-> TRUE, owner |-> "u1", archived |-> FALSE]
                ELSE [exists |-> FALSE, owner |-> "none", archived |-> FALSE]]
  /\ threads = [c \in ThreadIds |-> <<>>]
  /\ rows = <<>>
  /\ settings = <<>>

(***************************************************************************)
(* The LLMProvider object driven directly, one call at a time              *)
(***************************************************************************)
EnvKeyOpenai == <<"sk-env-openai">>
EnvKeyGemini == <<"env-gemini">>
UserKeyOpenai == <<"sk-user-openai">>
UserKeyGemini == <<"user-gemini">>

\* os.getenv returns None for an unset variable and "" for an empty one
Environments ==
  [openai : {None, <<>>, EnvKeyOpenai},
   gemini : {None, <<>>, EnvKeyGemini},
   broken : SUBSET {"openai", "gemini"}]

OllamaModels ==
  {<<"g", "e", "m", "m", "a", ":", "7", "b">>,
   <<"G", "e", "m", "m", "a", "2">>,
   <<"P", "H", "I", "3">>,
   <<"t", "i", "n", "y", "l", "l", "a", "m", "a">>,
   <<"s", "t", "a", "b", "l", "e", "l", "m", "2">>,
   <<"m", "i", "s", "t", "r", "a", "l">>,
   <<"d", "o", "l", "p", "h", "i", "n">>}

\* the headers a caller of set_api_keys may send: nothing, one override, or
\* both remote keys
ProbeHeaders ==
  {NoHeaders,
   [NoHeaders EXCEPT !.openai_key = UserKeyOpenai, !.gemini_key = UserKeyGemini]}
  \cup {[NoHeaders EXCEPT !.openai_key = k] : k \in {<<>>, UserKeyOpenai}}
  \cup {[NoHeaders EXCEPT !.openai_model = <<"gpt-4o">>]}
  \cup {[NoHeaders EXCEPT !.gemini_key = UserKeyGemini]}
  \cup {[NoHeaders EXCEPT !.ollama_url = <<"http://gpu-box:11434">>]}
  \cup {[NoHeaders EXCEPT !.ollama_model = m] : m \in OllamaModels}

NoCall == [op |-> "none"]

\* a store with no category directory
NoDocs ==
  [Academic |-> [exists |-> FALSE, files |-> <<>>],
   Administrative |-> [exists |-> FALSE, files |-> <<>>],
   Educational |-> [exists |-> FALSE, files |-> <<>>]]

NoProbe == [llm |-> Raise("not called"), llm_called |-> FALSE,
            st |-> FALSE, st_called |-> FALSE]

ProviderInit ==
  /\ env \in Environments
  /\ current_provider = InitProvider
  /\ api_keys = InitApiKeys
  /\ probe = NoProbe
  /\ docs = NoDocs
  /\ call = NoCall
  /\ uploads = <<>>
  /\ ChatInit

\* llm_provider.set_api_keys(...)
CallSetApiKeys(h) ==
  /\ api_keys' = SetApiKeys(api_keys, h)
  /\ probe' = NoProbe
  /\ UNCHANGED <<env, current_provider, docs, uploads, call, chat_vars>>

\* llm_provider.set_provider(p)
CallSetProvider(p) ==
  /\ current_provider' = p
  /\ probe' = NoProbe
  /\ UNCHANGED <<env, api_keys, docs, uploads, call, chat_vars>>

\* llm_provider.get_llm()
CallGetLlm ==
  /\ ~probe.llm_called
  /\ probe' = [probe EXCEPT !.llm = GetLlm(current_provider, api_keys, env),
                            !.llm_called = TRUE]
  /\ UNCHANGED <<provider_vars, docs, uploads, call, chat_vars>>

\* llm_provider.supports_tools()
CallSupportsTools ==
  /\ ~probe.st_called
  /\ probe' = [probe EXCEPT !.st = SupportsTools(current_provider, api_keys),
                            !.st_called = TRUE]
  /\ UNCHANGED <<provider_vars, docs, uploads, call, chat_vars>>

ProviderNext ==
  \/ \E h \in ProbeHeaders : CallSetApiKeys(h)
  \/ \E p \in Providers : CallSetProvider(p)
  \/ CallGetLlm
  \/ CallSupportsTools

SpecProvider == ProviderInit /\ [][ProviderNext]_vars

(***************************************************************************)
(* The search tools called directly on a document store                    *)
(***************************************************************************)
CalendarText ==
  <<"o", "c", "t", " ", "3", "0", " ", "c", "l", "a", "s", "s", "\n", "o",
    "c", "t", " ", "3", "1", " ", "c", "l", "a", "s", "s", "\n", "N", "o",
    "v", " ", "1", " ", "H", "o", "l", "i", "d", "a", "y", "\n", "n", "o",
    "v", " ", "2", " ", "c", "l", "a", "s", "s", "\n", "n", "o", "v", " ",
    "3", " ", "c", "l", "a", "s", "s", "\n", "n", "o", "v", " ", "4", " ",
    "e", "x", "a", "m", "\n">>

ExamsText ==
  <<"d", "e", "c", " ", "9", " ", "f", "i", "n", "a", "l", "s", "\n", "d",
    "e", "c", " ", "1", "0", " ", "b", "r", "e", "a", "k">>

AdminText ==
  <<"f", "e", "e", "s", " ", "d", "u", "e", " ", "j", "a", "n", " ", "5",
    "\n", "[", "C", "o", "n", "t", "a", "c", "t", " ", "I", "n", "f", "o",
    "r", "m", "a", "t", "i", "o", "n", "]", "\n", "B", "u", "r", "s", "a",
    "r", ":", " ", "5", "5", "5", "\n", "I", "T", " ", "d", "e", "s", "k",
    ":", " ", "5", "5", "6", "\n", "[", "F", "e", "e", "s", "]", "\n", "b",
    "u", "r", "s", "a", "r", " ", "f", "e", "e", " ", "1", "0", "\n">>

EduText ==
  <<"s", "q", "l", " ", "b", "a", "s", "i", "c", "s", "\n", "N", "o", " ",
    "r", "e", "l", "e", "v", "a", "n", "t", " ", "i", "n", "f", "o", "r",
    "m", "a", "t", "i", "o", "n", " ", "f", "o", "u", "n", "d", " ", "h",
    "e", "r", "e", "\n">>

CalendarFile == [name |-> <<"c", "a", "l", ".txt">>, readable |-> TRUE, content |-> CalendarText]

ExamsFile == [name |-> <<"e", "x", "a", "m", "s", ".txt">>, readable |-> TRUE, content |-> ExamsText]

UndecodableFile == [name |-> <<"s", "c", "a", "n", ".txt">>, readable |-> FALSE, content |-> <<>>]

AdminFile == [name |-> <<"a", "d", "m", "i", "n", ".txt">>, readable |-> TRUE, content |-> AdminText]

EmptyFile == [name |-> <<"e", "m", "p", "t", "y", ".txt">>, readable |-> TRUE, content |-> <<>>]

EduFile == [name |-> <<"e", "d", "u", ".txt">>, readable |-> TRUE, content |-> EduText]

MarkdownFile == [name |-> <<"n", "o", "t", "e", "s", ".md">>, readable |-> TRUE, content |-> CalendarText]

UpperExtFile == [name |-> <<"C", "A", "L", ".TXT">>, readable |-> TRUE, content |-> CalendarText]

\* a calendar whose holiday line is followed by a notice
NoticeFile ==
  [name |-> <<"n", "o", "t", "e", ".txt">>, readable |-> TRUE,
   content |-> <<"n", "o", "v", " ", "1", " ", "h", "o", "l", "i", "d", "a",
                 "y", "\n">> \o NotFoundPhrase \o <<"\n">>]

\* the argument strings given to the tools
Queries ==
  {<<>>,
   <<" ">>,
   <<"i", "s", " ", "i", "t", " ", "o", "n">>,
   <<"n", "o", "v", " ", "1">>,
   <<"N", "o", "v", " ", "1", ",">>,
   <<"f", "e", "e", "s">>,
   <<"z", "z", "z">>,
   <<"b", "u", "r", "s", "a", "r">>,
   <<"s", "q", "l">>,
   <<"x", "m", "a", "s">>}

MissingDir == [exists |-> FALSE, files |-> <<>>]

EmptyDir == [exists |-> TRUE, files |-> <<>>]

\* a directory whose only files are not matched by *.txt
NoTxtDir == [exists |-> TRUE, files |-> <<MarkdownFile, UpperExtFile>>]

SearchFiles ==
  {CalendarFile, ExamsFile, UndecodableFile, AdminFile, EmptyFile, EduFile}

AcademicDir == [exists |-> TRUE, files |-> <<CalendarFile, MarkdownFile, ExamsFile>>]

AdministrativeDir == [exists |-> TRUE, files |-> <<EmptyFile, AdminFile>>]

EducationalDir == [exists |-> TRUE, files |-> <<EduFile>>]

Store(academic, administrative, educational) ==
  [Academic |-> academic, Administrative |-> administrative,
   Educational |-> educational]

\* the document stores: one directory per category
Stores ==
  {Store(MissingDir, MissingDir, MissingDir),
   Store(EmptyDir, EmptyDir, EmptyDir),
   Store(NoTxtDir, NoTxtDir, NoTxtDir),
   Store(AcademicDir, AdministrativeDir, EducationalDir),
   Store([exists |-> TRUE, files |-> <<UndecodableFile, CalendarFile>>],
         MissingDir, NoTxtDir),
   Store(AcademicDir, NoTxtDir, MissingDir),
   Store([exists |-> TRUE, files |-> <<ExamsFile>>], MissingDir, MissingDir),
   Store([exists |-> TRUE, files |-> <<UndecodableFile>>], MissingDir, MissingDir),
   Store([exists |-> TRUE, files |-> <<ExamsFile, NoticeFile>>],
         MissingDir, MissingDir)}

\* context_lines: the values the tools pass (2, 3, 5), small ones, and values
\* on both sides of the initial last_line
ContextLines == {0, 1, 2, 3, 5, 500, 1000}

SearchInit ==
  /\ env = [openai |-> None, gemini |-> None, broken |-> {}]
  /\ current_provider = InitProvider
  /\ api_keys = InitApiKeys
  /\ probe = NoProbe
  /\ docs \in Stores
  /\ call = NoCall
  /\ uploads = <<>>
  /\ ChatInit

\* a tool of available_tools is called
ToolCalled(name, arg) ==
  /\ call = NoCall
  /\ call' = [op |-> name, arg |-> arg, result |-> RunTool(docs, name, arg)]
  /\ UNCHANGED <<provider_vars, probe, docs, uploads, chat_vars>>

CallSearchUniversityInfo == \E q \in Queries : ToolCalled("search_university_info", q)

CallSearchAcademicCalendar == \E q \in Queries : ToolCalled("search_academic_calendar", q)

CallCheckIfDateIsHoliday == \E q \in Queries : ToolCalled("check_if_date_is_holiday", q)

CallGetUniversityContactInfo == \E q \in Queries : ToolCalled("get_university_contact_info", q)

CallSearchEducationalResources == \E q \in Queries : ToolCalled("search_educational_resources", q)

\* search_file_content is called on one file
CallSearchFileContent ==
  \E f \in SearchFiles, q \in Queries, c \in ContextLines :
    /\ call = NoCall
    /\ call' = [op |-> "search_file_content", file |-> f, arg |-> q, c |-> c,
                result |-> SearchFileContent(f, q, c)]
    /\ UNCHANGED <<provider_vars, probe, docs, uploads, chat_vars>>

SearchNext ==
  \/ CallSearchUniversityInfo
  \/ CallSearchAcademicCalendar
  \/ CallCheckIfDateIsHoliday
  \/ CallGetUniversityContactInfo
  \/ CallSearchEducationalResources
  \/ CallSearchFileContent

SpecSearch == SearchInit /\ [][SearchNext]_vars

(***************************************************************************)
(* search_file_content: the keywords of every short query                  *)
(***************************************************************************)
MaxQueryLen == 4

\* the characters of the queries: a lower-case and an upper-case letter, a
\* digit, the comma and the blank
QueryChars == {"a", "N", "5", ",", " "}

ShortQueries == UNION {[1..n -> QueryChars] : n \in 0..MaxQueryLen}

KeywordsInit ==
  /\ env = [openai |-> None, gemini |-> None, broken |-> {}]
  /\ current_provider = InitProvider
  /\ api_keys = InitApiKeys
  /\ probe = NoProbe
  /\ docs = NoDocs
  /\ call = NoCall
  /\ uploads = <<>>
  /\ ChatInit

\* search_file_content up to the end of its keyword loop
ExtractKeywords ==
  \E q \in ShortQueries :
    /\ call = NoCall
    /\ call' = [op |-> "keywords", arg |-> q, result |-> Keywords(q)]
    /\ UNCHANGED <<provider_vars, probe, docs, uploads, chat_vars>>

KeywordsNext == ExtractKeywords

SpecKeywords == KeywordsInit /\ [][KeywordsNext]_vars

(***************************************************************************)
(* POST /settings/upload followed by the search tools                      *)
(***************************************************************************)
\* Path(filename).suffix
Suffix(name) == name[Len(name)]

\* str.lower() of a suffix
LowerSuffix(ext) ==
  CASE ext = ".TXT" -> ".txt"
    [] ext = ".Txt" -> ".txt"
    [] ext = ".MD"  -> ".md"
    [] OTHER        -> ext

\* app.config.ALLOWED_EXTENSIONS
AllowedExtensions == {".txt"}

ValidCategories == {"Academic", "Administrative", "Educational"}

\* an upload request: the multipart file (name, bytes), the form field
\* category and the caller; decodable says whether the bytes are UTF-8 text,
\* oversize whether len(content) > MAX_FILE_SIZE, restricted whether the
\* caller's e-mail ends in @pvpsit.ac.in
UploadRequest(filename, category, decodable, text, oversize, restricted) ==
  [filename |-> filename, category |-> category, decodable |-> decodable,
   text |-> text, oversize |-> oversize, restricted |-> restricted]

XmasText == <<"d", "e", "c", " ", "2", "5", " ", "x", "m", "a", "s", "\n">>

UploadRequests ==
  {UploadRequest(<<"n", "e", "w", ".txt">>, "Academic", TRUE, XmasText, FALSE, FALSE),
   UploadRequest(<<"N", "E", "W", ".TXT">>, "Academic", TRUE, XmasText, FALSE, FALSE),
   UploadRequest(<<"n", "e", "w", ".md">>, "Academic", TRUE, XmasText, FALSE, FALSE),
   UploadRequest(<<"c", "a", "l", ".txt">>, "Academic", TRUE, XmasText, FALSE, FALSE),
   UploadRequest(<<"b", "i", "n", ".txt">>, "Academic", FALSE, <<>>, FALSE, FALSE),
   UploadRequest(<<"b", "i", "g", ".txt">>, "Academic", TRUE, XmasText, TRUE, FALSE),
   UploadRequest(<<"n", "e", "w", ".txt">>, "Academic", TRUE, XmasText, FALSE, TRUE),
   UploadRequest(<<"n", "e", "w", ".txt">>, "Sports", TRUE, XmasText, FALSE, FALSE),
   UploadRequest(<<"n", "e", "w", ".txt">>, "Educational", TRUE, XmasText, FALSE, FALSE)}

\* the largest number of uploads of one behaviour
MaxUploads == 1

UploadResponse(u, status) ==
  [filename |-> u.filename, category |-> u.category, status |-> status]

\* file_path.exists()
FileExists(dir, name) == \E k \in 1..Len(dir.files) : dir.files[k].name = name

\* upload_file: the checks in the order of the code; the category directory
\* is made before the extension is looked at; the bytes are written as
\* received; when the write raises, the file is removed
UploadFile(u, written) ==
  /\ Len(uploads) < MaxUploads
  /\ call' = NoCall
  /\ IF u.restricted
     THEN /\ uploads' = Append(uploads, UploadResponse(u, 403))
          /\ UNCHANGED docs
     ELSE IF u.category \notin ValidCategories
     THEN /\ uploads' = Append(uploads, UploadResponse(u, 400))
          /\ UNCHANGED docs
     ELSE LET made == [docs EXCEPT ![u.category].exists = TRUE]
          IN  IF LowerSuffix(Suffix(u.filename)) \notin AllowedExtensions \/ u.oversize
              THEN /\ uploads' = Append(uploads, UploadResponse(u, 400))
                   /\ docs' = made
              ELSE IF FileExists(made[u.category], u.filename)
              THEN /\ uploads' = Append(uploads, UploadResponse(u, 409))
                   /\ docs' = made
              ELSE IF ~written
              THEN /\ uploads' = Append(uploads, UploadResponse(u, 500))
                   /\ docs' = made
              ELSE /\ uploads' = Append(uploads, UploadResponse(u, 200))
                   /\ docs' = [made EXCEPT ![u.category].files =
                                 Append(@, [name |-> u.filename,
                                            readable |-> u.decodable,
                                            content |-> u.text])]
  /\ UNCHANGED <<provider_vars, probe, chat_vars>>

UploadInit ==
  /\ env = [openai |-> None, gemini |-> None, broken |-> {}]
  /\ current_provider = InitProvider
  /\ api_keys = InitApiKeys
  /\ probe = NoProbe
  /\ docs \in {NoDocs, Store(AcademicDir, AdministrativeDir, EducationalDir)}
  /\ call = NoCall
  /\ uploads = <<>>
  /\ ChatInit

UploadNext ==
  \/ \E u \in UploadRequests, written \in BOOLEAN : UploadFile(u, written)
  \/ CallSearchUniversityInfo
  \/ CallSearchAcademicCalendar
  \/ CallCheckIfDateIsHoliday
  \/ CallGetUniversityContactInfo
  \/ CallSearchEducationalResources

SpecUpload == UploadInit /\ [][UploadNext]_vars

(***************************************************************************)
(* The chat endpoints and the agent graph: chat_router.py, graph.py        *)
(*                                                                         *)
(* /chat/prompt calls agent_graph.invoke inside its coroutine: from the    *)
(* first node to the commit the event loop runs nothing else.  What runs   *)
(* beside it is set_user_api_keys of another request: a plain def, so      *)
(* FastAPI runs it in a worker thread.  /chat/prompt/stream drives the     *)
(* graph with astream_events and gives the event loop back between nodes.  *)
(***************************************************************************)
HumanMessage(text) ==
  [type |-> "human", content |-> text, tool_calls |-> <<>>, tool_call_id |-> 0]

AIMessage(content, tool_calls) ==
  [type |-> "ai", content |-> content, tool_calls |-> tool_calls, tool_call_id |-> 0]

ToolMessage(content, id) ==
  [type |-> "tool", content |-> content, tool_calls |-> <<>>, tool_call_id |-> id]

ToolCall(id, name, arg) == [id |-> id, name |-> name, arg |-> arg]

\* the largest number of AGENT steps of one turn that the model explores: the
\* model stops asking for tools at this step
MaxAgentSteps == 2

\* what the chat model may answer at its step-th invocation of a turn: a
\* plain answer, or (with the tools bound) tool-call requests with or
\* without text; the identifiers are the provider's, one per request
ModelReplies(bound, step) ==
  {AIMessage(<<"Nov 1 is a holiday.">>, <<>>)}
  \cup (IF bound /\ step < MaxAgentSteps
        THEN {AIMessage(<<"Let me ", "look.">>,
                        <<ToolCall(step * 10 + 1, "check_if_date_is_holiday",
                                   <<"n", "o", "v", " ", "1">>),
                          ToolCall(step * 10 + 2, "get_university_contact_info",
                                   <<"d", "e", "s", "k">>)>>)}
        ELSE {})

\* the largest number of AGENT steps at which the model of SpecLoop still
\* asks for a tool
MaxLoopSteps == 14

\* a chat model that may ask for a tool at every invocation
LoopReplies(bound, step) ==
  {AIMessage(<<"Nov 1 is a holiday.">>, <<>>)}
  \cup (IF bound /\ step <= MaxLoopSteps
        THEN {AIMessage(<<>>, <<ToolCall(step, "check_if_date_is_holiday",
                                         <<"n", "o", "v", " ", "1">>)>>)}
        ELSE {})

\* the number of steps that a run of the graph may take: neither
\* workflow.compile nor the config of invoke / astream_events sets
\* recursion_limit, so the default of the graph runtime holds
RecursionLimit == 25

\* a run of the graph without a limit on its steps
NeverOutOfSteps(agent_steps) == FALSE

\* after the agent_steps-th AGENT step (and as many TOOLS steps but one)
\* the run has used up its steps: going on raises GraphRecursionError
OutOfSteps(agent_steps) == 2 * agent_steps - 1 >= RecursionLimit

\* should_continue deciding on the last message alone
ShouldContinueIgnoringProvider(last_message, provider, keys) ==
  IF last_message.tool_calls # <<>> THEN "tools" ELSE "end"

\* should_continue
ShouldContinue(last_message, provider, keys) ==
  IF ~SupportsTools(provider, keys) THEN "end"
  ELSE IF last_message.tool_calls # <<>> THEN "tools"
  ELSE "end"

\* tool_node running the first tool call only
ToolNodeMessagesFirstOnly(store, last_message) ==
  <<ToolMessage(RunTool(store, last_message.tool_calls[1].name,
                        last_message.tool_calls[1].arg),
                last_message.tool_calls[1].id)>>

\* tool_node: one ToolMessage per tool call of the last message
ToolNodeMessages(store, last_message) ==
  [k \in 1..Len(last_message.tool_calls) |->
     ToolMessage(RunTool(store, last_message.tool_calls[k].name,
                         last_message.tool_calls[k].arg),
                 last_message.tool_calls[k].id)] \o <<>>

Frame(type, data) == [type |-> type, data |-> data]

\* the contents of the chunks in which the chat model streams a message: a
\* first chunk without text, then the text piece by piece
Deltas(content) == <<<<>>>> \o [k \in 1..Len(content) |-> <<content[k]>>]

\* stream_response, on_chat_model_stream: a chunk with content is sent as a
\* content frame
ContentFrames(deltas) ==
  Bind(SelectSeq(deltas, LAMBDA content : content # <<>>), LAMBDA sent :
    [k \in 1..Len(sent) |-> Frame("content", sent[k])] \o <<>>)

\* accumulated_answer keeping the content of the last chunk only
AccumulateLastDelta(accumulated_answer, deltas) ==
  deltas[Len(deltas)]

\* stream_response, on_chat_model_stream: accumulated_answer += content for
\* the chunks with content
Accumulate(accumulated_answer, deltas) ==
  accumulated_answer \o Flatten(SelectSeq(deltas, LAMBDA content : content # <<>>))

\* the endpoints that call agent_graph.invoke inside their coroutine:
\* /chat/prompt and /chat/message
Blocking == {"prompt", "public"}

\* the request once its response is complete: the locals of the handler
\* are gone, what is left is what the client received
Responded(req, status, detail, frames) ==
  [IdleRequest EXCEPT !.pc = "done", !.kind = req.kind, !.thread = req.thread,
                      !.status = status, !.detail = detail, !.frames = frames]

\* the except branch answering as if the turn had succeeded: status 200 and
\* no error frame
FailedAsSuccess(req, error) ==
  Responded(req, 200, <<error>>, req.frames)

\* the except branch of send_message (rollback, HTTPException 500) and of
\* stream_response (an error frame on the open stream)
Failed(req, error) ==
  IF req.kind \in Blocking
  THEN Responded(req, 500, <<"Error processing message: ", error>>, <<>>)
  ELSE Responded(req, req.status, <<>>,
                 Append(req.frames, Frame("error", <<"Error: ", error>>)))

\* the states in which a /chat/prompt request holds the event loop
InsideInvoke == {"agent", "invoke", "decide", "tools", "end"}

\* the event loop is not held by a request other than s
LoopFree(s) ==
  \A t \in Slots \ {s} : ~(reqs[t].kind \in Blocking /\ reqs[t].pc \in InsideInvoke)

\* a step of request s can run: a /chat/prompt request inside invoke runs
\* on, everything else is scheduled by the event loop
CanStep(s) == reqs[s].kind \in Blocking \/ LoopFree(s)

GemmaModel == <<"g", "e", "m", "m", "a", ":", "7", "b">>

ChatRequest(kind, headers, chat_id) ==
  [IdleRequest EXCEPT !.pc = "handler", !.kind = kind, !.headers = headers,
                      !.chat_id = chat_id, !.message = <<"Is Nov 1 a holiday?">>]

\* the chat requests sent: the endpoints, with and without override
\* headers, into an existing chat and into a new one
ChatRequests ==
  {ChatRequest("prompt", NoHeaders, "c1"),
   ChatRequest("stream", NoHeaders, NoChatId),
   ChatRequest("prompt", [NoHeaders EXCEPT !.openai_key = UserKeyOpenai], NoChatId),
   ChatRequest("stream", [NoHeaders EXCEPT !.ollama_model = GemmaModel], "c1"),
   ChatRequest("public", NoHeaders, "c1"),
   ChatRequest("public", NoHeaders, NoChatId)}

\* set_user_api_keys: the dependency of the chat endpoints that takes the
\* override headers, run in a worker thread when the request arrives; the
\* connections are numbered in the order of arrival
SetUserApiKeys(s) ==
  \E request \in ChatRequests :
    /\ reqs[s].pc = "idle"
    /\ s = "r2" => reqs["r1"].pc # "idle"
    /\ api_keys' = SetApiKeys(api_keys, request.headers)
    /\ reqs' = [reqs EXCEPT ![s] = request]
    /\ UNCHANGED <<env, current_provider, probe, docs, uploads, call, chats, threads,
                   rows, settings>>

\* the chat ids not in use
FreeChatIds == {c \in ChatIds : ~chats[c].exists}

\* agent_graph.invoke / astream_events with {"messages": [("user", message)]}
\* and the thread's config: add_messages appends the human message to the
\* messages of the thread's checkpoint
GraphInput(history, message) == Append(history, HumanMessage(message))

\* send_message_public up to the first node of the graph: no user, no chat
\* row; the thread is the chat id sent, or "anonymous-chat"
SendMessagePublic(s) ==
  /\ reqs[s].pc = "handler"
  /\ reqs[s].kind = "public"
  /\ LoopFree(s)
  /\ LET thread_id == IF reqs[s].chat_id # NoChatId THEN reqs[s].chat_id
                      ELSE AnonymousChat
         input == GraphInput(threads[thread_id], reqs[s].message)
     IN  /\ reqs' = [reqs EXCEPT ![s].pc = "agent", ![s].thread = thread_id,
                                 ![s].msgs = input]
         /\ threads' = [threads EXCEPT ![thread_id] = input]
  /\ UNCHANGED <<env, current_provider, api_keys, probe, docs, uploads, call, chats,
                 rows, settings>>

\* send_message_public after END: the answer is returned, nothing is stored
SendMessagePublicReturn(s) ==
  /\ reqs[s].pc = "end"
  /\ reqs[s].kind = "public"
  /\ reqs' = [reqs EXCEPT ![s] =
                Responded(@, 200, @.msgs[Len(@.msgs)].content, <<>>)]
  /\ UNCHANGED <<env, current_provider, api_keys, probe, docs, uploads, call, chats,
                 threads, rows, settings>>

\* send_message / send_message_stream up to the first node of the graph:
\* the chat is looked up by id, owner and not archived, or created; the
\* graph loads the thread's checkpoint and adds the user message
GetOrCreateChat(s) ==
  /\ reqs[s].pc = "handler"
  /\ reqs[s].kind # "public"
  /\ LoopFree(s)
  /\ IF reqs[s].chat_id # NoChatId
     THEN IF /\ chats[reqs[s].chat_id].exists
             /\ chats[reqs[s].chat_id].owner = UserOf(s)
             /\ ~chats[reqs[s].chat_id].archived
          THEN /\ reqs' = [reqs EXCEPT ![s].pc = "agent",
                             ![s].thread = reqs[s].chat_id,
                             ![s].status = IF reqs[s].kind = "stream" THEN 200 ELSE 0,
                             ![s].msgs = GraphInput(threads[reqs[s].chat_id],
                                                    reqs[s].message)]
               /\ threads' = [threads EXCEPT ![reqs[s].chat_id] =
                                GraphInput(@, reqs[s].message)]
               /\ UNCHANGED chats
          ELSE /\ reqs' = [reqs EXCEPT ![s] =
                              Responded(@, 404, <<"Chat not found">>, <<>>)]
               /\ UNCHANGED <<chats, threads>>
     ELSE /\ FreeChatIds # {}
          /\ LET c == CHOOSE x \in FreeChatIds : TRUE
             IN  /\ chats' = [chats EXCEPT ![c] =
                               [exists |-> TRUE, owner |-> UserOf(s), archived |-> FALSE]]
                 /\ reqs' = [reqs EXCEPT ![s].pc = "agent", ![s].thread = c,
                               ![s].status = IF reqs[s].kind = "stream" THEN 200 ELSE 0,
                               ![s].msgs = GraphInput(threads[c], reqs[s].message)]
                 /\ threads' = [threads EXCEPT ![c] = GraphInput(@, reqs[s].message)]
  /\ UNCHANGED <<env, current_provider, api_keys, probe, docs, uploads, call, rows, settings>>

\* agent_node, line 41: llm = get_current_llm(); a ValueError leaves the
\* graph and reaches the except branch of the endpoint
AgentNodeGetLlm(s) ==
  /\ reqs[s].pc = "agent"
  /\ CanStep(s)
  /\ LET llm == GetLlm(current_provider, api_keys, env)
     IN  reqs' = [reqs EXCEPT ![s] =
                    IF llm.raised
                    THEN Failed(@, llm.error)
                    ELSE [@ EXCEPT !.pc = "invoke", !.mode = current_provider,
                                   !.llm = llm]]
  /\ UNCHANGED <<env, current_provider, api_keys, probe, docs, uploads, call, chats,
                 threads, rows, settings>>

\* agent_node, lines 46-104: the tools are bound iff supports_tools(), the
\* model is invoked once and its message is added to the history; the
\* provider may reject the call (bad credential, unreachable server)
\* agent_node binding the tools whatever supports_tools() answers
AgentInputAlwaysBound(bound, messages) ==
  [system |-> "strict", tools |-> ToolNames, messages |-> messages]

\* agent_node, lines 46-102: what the chat model is invoked on: the system
\* message of the branch taken, the tools bound, and state["messages"]
AgentInput(bound, messages) ==
  [system |-> IF bound THEN "strict" ELSE "permissive",
   tools |-> IF bound THEN ToolNames ELSE {},
   messages |-> messages]

Invoke(s, replies) ==
  /\ reqs[s].pc = "invoke"
  /\ CanStep(s)
  /\ \/ \E response \in replies :
          /\ reqs' = [reqs EXCEPT ![s].pc = "decide",
                        ![s].agent_steps = @ + 1,
                        ![s].input =
                          AgentInput(SupportsTools(current_provider, api_keys),
                                     reqs[s].msgs),
                        ![s].msgs = Append(@, response),
                        ![s].frames =
                          IF reqs[s].kind = "stream"
                          THEN @ \o ContentFrames(Deltas(response.content))
                          ELSE @,
                        ![s].accumulated_answer =
                          IF reqs[s].kind = "stream"
                          THEN Accumulate(@, Deltas(response.content))
                          ELSE @]
          /\ threads' = [threads EXCEPT ![reqs[s].thread] =
                           Append(reqs[s].msgs, response)]
       \/ /\ reqs' = [reqs EXCEPT ![s] = Failed(@, "invoke failed")]
          /\ UNCHANGED threads
  /\ UNCHANGED <<env, current_provider, api_keys, probe, docs, uploads, call, chats,
                 rows, settings>>

AgentNodeInvoke(s) ==
  Invoke(s, ModelReplies(SupportsTools(current_provider, api_keys),
                         reqs[s].agent_steps + 1))

\* agent_node with a chat model that goes on asking for tools
AgentNodeInvokeLoop(s) ==
  Invoke(s, LoopReplies(SupportsTools(current_provider, api_keys),
                        reqs[s].agent_steps + 1))

\* the conditional edge after "agent": should_continue reads llm_provider;
\* a run that has to go on after its last step is ended by the runtime
DecideNext(s) ==
  /\ reqs[s].pc = "decide"
  /\ CanStep(s)
  /\ LET next == ShouldContinue(reqs[s].msgs[Len(reqs[s].msgs)],
                                current_provider, api_keys)
     IN  reqs' = [reqs EXCEPT ![s] =
                    IF next = "tools" /\ OutOfSteps(@.agent_steps)
                    THEN Failed(@, "Recursion limit reached")
                    ELSE [@ EXCEPT !.pc = next]]
  /\ UNCHANGED <<env, current_provider, api_keys, probe, docs, uploads, call, chats,
                 threads, rows, settings>>

\* the node "tools", then the edge back to "agent"
ToolNode(s) ==
  /\ reqs[s].pc = "tools"
  /\ CanStep(s)
  /\ LET last_message == reqs[s].msgs[Len(reqs[s].msgs)]
         results == ToolNodeMessages(docs, last_message)
     IN  /\ reqs' = [reqs EXCEPT ![s].pc = "agent",
                       ![s].tool_runs = @ + Len(results),
                       ![s].msgs = @ \o results,
                       ![s].frames =
                         IF reqs[s].kind = "stream"
                         THEN @ \o [k \in 1..Len(results) |->
                                      Frame("status",
                                            <<"Searching ",
                                              last_message.tool_calls[k].name,
                                              "...">>)]
                         ELSE @]
         /\ threads' = [threads EXCEPT ![reqs[s].thread] = reqs[s].msgs \o results]
  /\ UNCHANGED <<env, current_provider, api_keys, probe, docs, uploads, call, chats,
                 rows, settings>>

\* after END: the answer is taken, the turn is added to table messages and
\* committed; the commit may fail
SaveMessage(s) ==
  /\ reqs[s].pc = "end"
  /\ reqs[s].kind # "public"
  /\ CanStep(s)
  /\ \E committed \in BOOLEAN :
       LET answer == IF reqs[s].kind = "prompt"
                     THEN reqs[s].msgs[Len(reqs[s].msgs)].content
                     ELSE reqs[s].accumulated_answer
           sent == IF reqs[s].kind = "prompt" THEN reqs[s]
                   ELSE [reqs[s] EXCEPT !.frames =
                           Append(@, Frame("complete", reqs[s].thread))]
       IN  IF committed
           THEN /\ rows' = Append(rows, [chat_id |-> reqs[s].thread,
                                         human |-> reqs[s].message,
                                         bot |-> answer])
                /\ reqs' = [reqs EXCEPT ![s] =
                              IF reqs[s].kind = "prompt"
                              THEN Responded(sent, 200, answer, <<>>)
                              ELSE Responded(sent, 200, <<>>, sent.frames)]
           ELSE /\ UNCHANGED rows
                /\ reqs' = [reqs EXCEPT ![s] = Failed(sent, "commit failed")]
  /\ UNCHANGED <<env, current_provider, api_keys, probe, docs, uploads, call, chats,
                 threads, settings>>

\* the client of a streaming request closes the connection: the server stops
\* iterating stream_response, whose remaining code (further frames, the
\* complete frame, the Message row) never runs; the frames sent stay sent
ClientDisconnect(s) ==
  /\ reqs[s].kind = "stream"
  /\ reqs[s].pc \in InsideInvoke
  /\ LoopFree(s)
  /\ reqs' = [reqs EXCEPT ![s] =
                [Responded(@, @.status, <<>>, @.frames) EXCEPT !.pc = "cancelled"]]
  /\ UNCHANGED <<env, current_provider, api_keys, probe, docs, uploads, call, chats,
                 threads, rows, settings>>

\* the chats the archive requests of the model name
ArchiveRequests == {"c1"}

\* DELETE /chat/archive/{chat_id} sent by the owner of the chat: the chat is
\* selected by id and user and its archived_at is set and committed
ArchiveChat(c) ==
  /\ \A s \in Slots : ~(reqs[s].kind \in Blocking /\ reqs[s].pc \in InsideInvoke)
  /\ chats[c].exists
  /\ ~chats[c].archived
  /\ chats' = [chats EXCEPT ![c].archived = TRUE]
  /\ UNCHANGED <<env, current_provider, api_keys, probe, docs, uploads, call,
                 reqs, threads, rows, settings>>

\* PUT /settings/provider: set_provider, then the newest settings record is
\* updated, or a first one is added, and committed
UpdateProviderSettings(p) ==
  /\ \A s \in Slots : ~(reqs[s].kind \in Blocking /\ reqs[s].pc \in InsideInvoke)
  /\ current_provider' = p
  /\ settings' = IF settings = <<>> THEN <<p>> ELSE [settings EXCEPT ![1] = p]
  /\ UNCHANGED <<env, api_keys, probe, docs, uploads, call, reqs, chats, threads, rows>>

\* the operator has configured an OpenAI key and no Gemini key
ChatEnvironment == [openai |-> EnvKeyOpenai, gemini |-> None, broken |-> {}]

\* the providers an administrator switches between
ChatProviders == {"ollama", "gemini", "auto"}

Init ==
  /\ env = ChatEnvironment
  /\ current_provider = InitProvider
  /\ api_keys = InitApiKeys
  /\ probe = NoProbe
  /\ docs = Store(AcademicDir, AdministrativeDir, EducationalDir)
  /\ call = NoCall
  /\ uploads = <<>>
  /\ ChatInit

Next ==
  \/ \E s \in Slots : SetUserApiKeys(s)
  \/ \E s \in Slots : GetOrCreateChat(s)
  \/ \E s \in Slots : SendMessagePublic(s)
  \/ \E s \in Slots : AgentNodeGetLlm(s)
  \/ \E s \in Slots : AgentNodeInvoke(s)
  \/ \E s \in Slots : DecideNext(s)
  \/ \E s \in Slots : ToolNode(s)
  \/ \E s \in Slots : SaveMessage(s)
  \/ \E s \in Slots : SendMessagePublicReturn(s)
  \/ \E s \in Slots : ClientDisconnect(s)
  \/ \E p \in ChatProviders : UpdateProviderSettings(p)

Spec == Init /\ [][Next]_vars

(***************************************************************************)
(* One chat request served alone, by a chat model that goes on asking for  *)
(* tools: the length of a turn                                             *)
(***************************************************************************)
LoopInit ==
  /\ env = ChatEnvironment
  /\ current_provider \in ChatProviders
  /\ api_keys = InitApiKeys
  /\ probe = NoProbe
  /\ docs = Store(AcademicDir, AdministrativeDir, EducationalDir)
  /\ call = NoCall
  /\ uploads = <<>>
  /\ ChatInit

LoopNext ==
  \/ SetUserApiKeys("r1")
  \/ GetOrCreateChat("r1")
  \/ SendMessagePublic("r1")
  \/ AgentNodeGetLlm("r1")
  \/ AgentNodeInvokeLoop("r1")
  \/ DecideNext("r1")
  \/ ToolNode("r1")
  \/ SaveMessage("r1")
  \/ SendMessagePublicReturn("r1")
  \/ ClientDisconnect("r1")

SpecLoop == LoopInit /\ [][LoopNext]_vars

(***************************************************************************)
(* One chat request and the archive requests of the chat's owner           *)
(***************************************************************************)
ArchiveNext ==
  \/ SetUserApiKeys("r1")
  \/ GetOrCreateChat("r1")
  \/ SendMessagePublic("r1")
  \/ AgentNodeGetLlm("r1")
  \/ AgentNodeInvoke("r1")
  \/ DecideNext("r1")
  \/ ToolNode("r1")
  \/ SaveMessage("r1")
  \/ SendMessagePublicReturn("r1")
  \/ ClientDisconnect("r1")
  \/ \E c \in ArchiveRequests : ArchiveChat(c)

SpecArchive == LoopInit /\ [][ArchiveNext]_vars

RemoteKinds == {"openai", "gemini"}

EnvKeyOf(kind) == IF kind = "openai" THEN env.openai ELSE env.gemini

UserKeyOf(kind) == IF kind = "openai" THEN api_keys.openai ELSE api_keys.gemini

\* the model names of OllamaModels (and the default) that hold a denylisted
\* family name, whatever the letter case: classified by hand
DenylistedByName ==
  {<<"g", "e", "m", "m", "a", ":", "7", "b">>,
   <<"G", "e", "m", "m", "a", "2">>,
   <<"P", "H", "I", "3">>,
   <<"t", "i", "n", "y", "l", "l", "a", "m", "a">>,
   <<"s", "t", "a", "b", "l", "e", "l", "m", "2">>,
   <<"d", "o", "l", "p", "h", "i", "n">>}

(***************************************************************************)
(* Claims about the agent loop and the chat endpoints                      *)
(***************************************************************************)
\* the active provider does not support tools: the local provider with a
\* model whose name holds a denylisted family name
ProviderLacksTools ==
  current_provider = "ollama" /\ api_keys.ollama_model \in DenylistedByName

LastMessage(s) == reqs[s].msgs[Len(reqs[s].msgs)]

\* request s takes the conditional edge after "agent"
Decides(s) == reqs[s].pc = "decide" /\ reqs'[s].pc \in {"tools", "end"}

\* C1: after every AGENT step the next state follows the rule: END when the
\* active provider does not support tools, whatever the model's message
\* holds (at the first AGENT step: one model invocation, no tool executed);
\* otherwise TOOLS when the last assistant message holds tool calls and END
\* when it holds none.
C1_TransitionRule ==
  [][\A s \in Slots :
       Decides(s) =>
         /\ reqs'[s].pc = IF ProviderLacksTools THEN "end"
                          ELSE IF LastMessage(s).tool_calls # <<>> THEN "tools"
                          ELSE "end"
         /\ (ProviderLacksTools /\ reqs[s].agent_steps = 1) =>
              /\ reqs'[s].agent_steps = 1
              /\ reqs'[s].tool_runs = 0]_vars

\* C1 witness: a turn went AGENT -> END after one model invocation whose
\* message holds tool calls, the provider not supporting tools
C1_Witness ==
  \E s \in Slots :
    /\ reqs[s].pc = "end"
    /\ ProviderLacksTools
    /\ LastMessage(s).tool_calls # <<>>
    /\ reqs[s].agent_steps = 1
    /\ reqs[s].tool_runs = 0

\* every tool call of the history is followed by a tool message with its id
ToolCallsAnswered(history) ==
  \A i \in 1..Len(history) :
    \A k \in 1..Len(history[i].tool_calls) :
      \E j \in (i + 1)..Len(history) :
        /\ history[j].type = "tool"
        /\ history[j].tool_call_id = history[i].tool_calls[k].id

\* C2: whenever a turn reaches END, the last event of the thread's history
\* is an assistant message with no tool call, and every tool call of the
\* history has a tool message carrying its identifier.
C2_EndsOnPlainAnswer ==
  \A s \in Slots :
    reqs[s].pc = "end" =>
      LET history == threads[reqs[s].thread]
      IN  /\ history[Len(history)].type = "ai"
          /\ history[Len(history)].tool_calls = <<>>
          /\ ToolCallsAnswered(history)

\* the client of request s is built from the request's own headers and the
\* operator's configuration only
OwnOrOperator(s) ==
  LET llm == reqs[s].llm
      h == reqs[s].headers
  IN  /\ llm.kind = "openai" =>
           /\ llm.key \in {env.openai, h.openai_key}
           /\ llm.model \in {DefaultOpenaiModel, h.openai_model}
      /\ llm.kind = "gemini" =>
           /\ llm.key \in {env.gemini, h.gemini_key}
           /\ llm.model \in {DefaultGeminiModel, h.gemini_model}
      /\ llm.kind = "ollama" =>
           /\ llm.model \in {DefaultOllamaModel, h.ollama_model}
           /\ llm.url \in {DefaultOllamaUrl, h.ollama_url}

\* C3: the provider client built for a chat request uses only that
\* request's own override headers and the operator's configuration, never a
\* key, model or endpoint sent with another request.
C3_OverridesRequestScoped ==
  \A s \in Slots : ~reqs[s].llm.raised => OwnOrOperator(s)

\* the response of a request is an error: status 5xx, or an error frame
RespondedError(req) ==
  /\ req.pc = "done"
  /\ \/ req.status >= 500
     \/ req.frames # <<>> /\ req.frames[Len(req.frames)].type = "error"

\* C6: in auto mode a chat turn does not fail because of a remote provider:
\* a remote client that fails when the model is invoked does not end the
\* request with an error.
C6_AutoNeverPropagatesRemoteFailure ==
  [][\A s \in Slots :
       (/\ reqs[s].pc = "invoke"
        /\ reqs[s].mode = "auto"
        /\ reqs[s].llm.kind \in RemoteKinds) => ~RespondedError(reqs'[s])]_vars

\* C7: a chat request served while an explicit remote provider is active and
\* no credential for it is configured ends with a 4xx response at the first
\* AGENT step: no model is invoked and no turn is stored.
C7_MissingCredentialIs4xx ==
  [][\A s \in Slots :
       (/\ reqs[s].pc = "agent"
        /\ reqs'[s].pc \notin {"agent", "cancelled"}
        /\ current_provider \in RemoteKinds
        /\ ~Truthy(EnvKeyOf(current_provider))
        /\ ~Truthy(UserKeyOf(current_provider))) =>
         /\ reqs'[s].pc = "done"
         /\ reqs'[s].status \in 400..499
         /\ rows' = rows]_vars

(***************************************************************************)
(* Claims about the Provider Selector                                      *)
(***************************************************************************)
\* an operator-configured credential whose client can be built
OperatorUsable(kind) == Truthy(EnvKeyOf(kind)) /\ kind \notin env.broken

AutoResolved == probe.llm_called /\ current_provider = "auto"

\* C4: in auto mode, whenever a usable operator-configured remote credential
\* exists the returned client is a remote client built with the operator's
\* credential for its provider; a user-supplied credential is used only when
\* no operator-configured credential is usable; the local provider is
\* returned only when no remote credential is usable at all.
C4_OperatorCredentialFirst ==
  AutoResolved =>
    /\ ~probe.llm.raised
    /\ (\E k \in RemoteKinds : OperatorUsable(k)) =>
         /\ probe.llm.kind \in RemoteKinds
         /\ probe.llm.key = EnvKeyOf(probe.llm.kind)
    /\ (probe.llm.kind \in RemoteKinds /\ probe.llm.key # EnvKeyOf(probe.llm.kind)) =>
         ~\E k \in RemoteKinds : OperatorUsable(k)
    /\ probe.llm.kind = "ollama" =>
         \A k \in RemoteKinds :
            k \in env.broken \/ (~Truthy(EnvKeyOf(k)) /\ ~Truthy(UserKeyOf(k)))

NoRemoteCredential ==
  \A k \in RemoteKinds : ~Truthy(EnvKeyOf(k)) /\ ~Truthy(UserKeyOf(k))

\* C5: with provider "auto" and no remote credential configured (neither in
\* the environment nor user-supplied, for OpenAI and for Gemini), get_llm
\* returns the local Ollama client built from the configured local URL and
\* model, and raises nothing.
C5_AutoFallsBackToLocal ==
  (AutoResolved /\ NoRemoteCredential) =>
    /\ ~probe.llm.raised
    /\ probe.llm.kind = "ollama"
    /\ probe.llm.url = api_keys.ollama_url
    /\ probe.llm.model = api_keys.ollama_model

\* C5 witness: auto resolution ran with no remote credential and a local URL
\* and model that are not the defaults
C5_Witness ==
  /\ AutoResolved
  /\ NoRemoteCredential
  /\ api_keys.ollama_url # DefaultOllamaUrl
  /\ api_keys.ollama_model # DefaultOllamaModel
  /\ probe.llm.kind = "ollama"

\* C8: supports_tools is true for openai and gemini; for ollama it is true
\* iff the configured local model name holds none of gemma, phi, tinyllama,
\* stablelm, compared case-insensitively; for auto it is true whatever
\* client auto resolution returns for the same configuration.
C8_SupportsTools ==
  probe.st_called =>
    /\ current_provider \in {"openai", "gemini"} => probe.st
    /\ current_provider = "ollama" =>
         (probe.st <=> api_keys.ollama_model \notin DenylistedByName)
    /\ current_provider = "auto" => probe.st

\* C8 witness: the local provider with a denylisted name written in capitals
\* is reported tool-incapable
C8_Witness ==
  /\ probe.st_called
  /\ current_provider = "ollama"
  /\ api_keys.ollama_model = <<"P", "H", "I", "3">>
  /\ ~probe.st

(***************************************************************************)
(* Claims about the search tools                                           *)
(***************************************************************************)
\* the category directory a tool reads
ToolDir(name) ==
  CASE name \in {"search_university_info", "get_university_contact_info"} ->
         docs.Administrative
    [] name \in {"search_academic_calendar", "check_if_date_is_holiday"} ->
         docs.Academic
    [] name = "search_educational_resources" -> docs.Educational

\* the text each tool returns when its category has no text file
NoFilesText(name) ==
  CASE name = "search_university_info" ->
         <<"No administrative information files found. ",
           "The related data is not present in the system.">>
    [] name \in {"search_academic_calendar", "check_if_date_is_holiday"} ->
         <<"No academic calendar files found. ",
           "The related data is not present in the system.">>
    [] name = "get_university_contact_info" ->
         <<"No administrative files found. ",
           "The related data is not present in the system.">>
    [] name = "search_educational_resources" ->
         <<"No educational resource files found. ",
           "The related data is not present in the system.">>

\* the directory is missing, or no file in it has a name ending in .txt
HasNoTextFile(dir) ==
  ~dir.exists \/ \A k \in 1..Len(dir.files) :
                   LET n == dir.files[k].name IN n[Len(n)] # ".txt"

\* C9: for each of the five search tools and every argument, when the tool's
\* category directory does not exist or holds no text file the tool returns
\* (it does not raise) its sentinel text, which states that the related data
\* is not present in the system.
C9_MissingCategoryGivesSentinel ==
  (call.op \in ToolNames /\ HasNoTextFile(ToolDir(call.op))) =>
    call.result = NoFilesText(call.op)

\* C9 witness: a tool was called on a directory that exists and holds only
\* files that are not text files, and returned the sentinel
C9_Witness ==
  /\ call.op = "get_university_contact_info"
  /\ docs.Administrative.exists
  /\ docs.Administrative.files # <<>>
  /\ HasNoTextFile(docs.Administrative)
  /\ call.result = NoFilesText(call.op)

\* some line of the file holds a keyword of the query, whatever the letter case
SomeLineMatches(file, query) ==
  /\ file.readable
  /\ \E line \in {ReadLines(file.content)[i] : i \in 1..Len(ReadLines(file.content))} :
       \E kw \in {Keywords(query)[k] : k \in 1..Len(Keywords(query))} :
          Contains(kw, Lower(line) \o <<>>)

\* the not-found message naming the file and the original query
NotFoundText(file, query) ==
  NotFoundPhrase \o <<" in ">> \o file.name \o <<" for query: ">> \o query

\* the result is sections of the file: neither of the two messages, and it
\* holds every matching line
IsJoinedSections(file, query, result) ==
  /\ result # NotFoundText(file, query)
  /\ result[1] # "Error searching file: "
  /\ \A line \in {ReadLines(file.content)[i] : i \in 1..Len(ReadLines(file.content))} :
       (\E kw \in {Keywords(query)[k] : k \in 1..Len(Keywords(query))} :
           Contains(kw, Lower(line) \o <<>>))
       => Contains(line, result)

\* C10: for every file that can be read, every query and every
\* context_lines >= 0,
\* search_file_content never returns the empty string: it returns the joined
\* sections when at least one line matches, and otherwise the not-found
\* message that names the file and the original query.
C10_SectionsOrNotFound ==
  (call.op = "search_file_content" /\ call.file.readable) =>
    /\ call.result # <<>>
    /\ IF SomeLineMatches(call.file, call.arg)
       THEN IsJoinedSections(call.file, call.arg, call.result)
       ELSE call.result = NotFoundText(call.file, call.arg)

\* the three tools that aggregate search_file_content over a category
AggregatingTools ==
  {"search_university_info", "search_academic_calendar",
   "search_educational_resources"}

\* the files of a directory whose name ends in .txt, in directory order
TextFilesOf(dir) ==
  IF ~dir.exists THEN <<>>
  ELSE SelectSeq(dir.files, LAMBDA f : f.name[Len(f.name)] = ".txt")

\* the source label of a file's block
SourceLabel(file) == <<"From ">> \o file.name \o <<":", "\n">>

\* the result ends with the sentence saying the data is not present
EndsWithSentinel(result) ==
  result # <<>> /\ result[Len(result)] = "The related data is not present in the system."

\* C11: for the three aggregating tools, every query and every category whose
\* text files can be read: the result holds the block label "From <name>:"
\* of a file iff at least one line of that file matches the query, and the
\* result is the not-present sentinel iff no file of the category has a
\* matching line.
C11_BlockIffFileMatches ==
  (/\ call.op \in AggregatingTools
   /\ \A k \in 1..Len(TextFilesOf(ToolDir(call.op))) :
         TextFilesOf(ToolDir(call.op))[k].readable) =>
    /\ \A k \in 1..Len(TextFilesOf(ToolDir(call.op))) :
         Contains(SourceLabel(TextFilesOf(ToolDir(call.op))[k]), call.result)
           <=> SomeLineMatches(TextFilesOf(ToolDir(call.op))[k], call.arg)
    /\ EndsWithSentinel(call.result)
         <=> \A k \in 1..Len(TextFilesOf(ToolDir(call.op))) :
                ~SomeLineMatches(TextFilesOf(ToolDir(call.op))[k], call.arg)

\* the latest upload was stored
LatestUploadStored ==
  /\ uploads # <<>>
  /\ uploads[Len(uploads)].status = 200

\* the file a stored upload made
UploadedFile(response) ==
  CHOOSE f \in {docs[response.category].files[k] :
                  k \in 1..Len(docs[response.category].files)} :
    f.name = response.filename

\* the query matches a line of the file and of no other file of the directory
OccursOnlyIn(query, file, dir) ==
  /\ SomeLineMatches(file, query)
  /\ \A k \in 1..Len(dir.files) :
       dir.files[k] # file => ~SomeLineMatches(dir.files[k], query)

\* C12: after a successful upload to category Academic, whatever file name
\* the upload accepted, search_academic_calendar called with a keyword that
\* occurs only in the uploaded file returns a result that holds the file's
\* name as a source label.
C12_UploadThenSearchFindsFile ==
  (/\ LatestUploadStored
   /\ uploads[Len(uploads)].category = "Academic"
   /\ call.op = "search_academic_calendar"
   /\ OccursOnlyIn(call.arg, UploadedFile(uploads[Len(uploads)]), docs.Academic)) =>
    Contains(SourceLabel(UploadedFile(uploads[Len(uploads)])), call.result)

\* the lines of a file's text that lie in a [Contact Information] section:
\* after a header line, with no line starting with a bracket in between
ContactLinesOf(file) ==
  IF ~file.readable THEN <<>>
  ELSE Bind(SplitNewline(file.content), LAMBDA lines :
         Seconds(SelectSeq(
           [i \in 1..Len(lines) |-> <<i, lines[i]>>] \o <<>>,
           LAMBDA p :
             \E h \in 1..(p[1] - 1) :
               /\ Contains(ContactHeader, lines[h])
               /\ \A j \in (h + 1)..p[1] : ~StartsWithBracket(lines[j]))))

\* the contact lines of the file that hold the department, letter case aside
DepartmentLines(file, department) ==
  SelectSeq(ContactLinesOf(file),
            LAMBDA l : Contains(Lower(department) \o <<>>, Lower(l) \o <<>>))

\* C13: get_university_contact_info(d) returns the lines of an Administrative
\* file that lie in a [Contact Information] section and hold d, letter case
\* aside, joined by newlines; it returns the not-found sentinel iff no
\* Administrative file has such a line.
C13_ContactLinesOrSentinel ==
  call.op = "get_university_contact_info" =>
    LET files == TextFilesOf(docs.Administrative)
        hits == {k \in 1..Len(files) : DepartmentLines(files[k], call.arg) # <<>>}
    IN  IF hits = {}
        THEN EndsWithSentinel(call.result)
        ELSE \E k \in hits :
               call.result = Join(DepartmentLines(files[k], call.arg), <<"\n">>)

(***************************************************************************)
(* Claims about failures, streaming and thread memory                      *)
(***************************************************************************)
\* the request is inside the agent loop: between the entry point and END
InLoop(req) == req.pc \in {"agent", "invoke", "decide", "tools"}

\* the message of the exception that a step of request s raises
UnderlyingError(s) ==
  IF reqs[s].pc = "agent" THEN GetLlm(current_provider, api_keys, env).error
  ELSE IF reqs[s].pc = "decide" THEN "Recursion limit reached"
  ELSE "invoke failed"

\* C14: a turn whose agent loop fails is never persisted, in either mode.  A
\* non-streaming request answers 5xx with the underlying message and no
\* message row is stored; a streaming request emits an error frame after the
\* frames already sent, and no message row is stored (the accumulated
\* content is dropped).
C14_FailedTurnNotPersisted ==
  [][\A s \in Slots :
       (InLoop(reqs[s]) /\ reqs'[s].pc = "done") =>
         /\ rows' = rows
         /\ reqs[s].kind # "stream" =>
              /\ reqs'[s].status \in 500..599
              /\ reqs'[s].detail = <<"Error processing message: ", UnderlyingError(s)>>
         /\ reqs[s].kind = "stream" =>
              reqs'[s].frames =
                Append(reqs[s].frames, Frame("error", <<"Error: ", UnderlyingError(s)>>))]_vars

\* C14 witness: a streaming turn failed after content had been sent, and a
\* non-streaming turn failed; no row is stored for either
C14_Witness ==
  /\ \E s \in Slots :
       /\ reqs[s].pc = "done"
       /\ reqs[s].kind = "stream"
       /\ Len(reqs[s].frames) >= 2
       /\ reqs[s].frames[1].type = "content"
       /\ reqs[s].frames[Len(reqs[s].frames)].type = "error"
  /\ \E s \in Slots :
       /\ reqs[s].pc = "done"
       /\ reqs[s].kind = "prompt"
       /\ reqs[s].status = 500
  /\ rows = <<>>

\* the data of the content frames, concatenated in the order of the frames
ContentOf(frames) ==
  LET sent == SelectSeq(frames, LAMBDA f : f.type = "content")
  IN  Flatten([k \in 1..Len(sent) |-> sent[k].data] \o <<>>)

\* the messages added to the history after the human message of the turn
TurnMessages(msgs) ==
  LET h == CHOOSE i \in 1..Len(msgs) :
             /\ msgs[i].type = "human"
             /\ \A j \in (i + 1)..Len(msgs) : msgs[j].type # "human"
  IN  SubSeq(msgs, h + 1, Len(msgs))

RECURSIVE ExpectedFrames(_, _)
\* the frames that the events of a turn call for, from its k-th message on:
\* for an assistant message one content frame per piece of text, and, once
\* its tool calls have been run, one status frame per tool call
ExpectedFrames(turn, k) ==
  IF k > Len(turn) THEN <<>>
  ELSE (IF turn[k].type # "ai" THEN <<>>
        ELSE [i \in 1..Len(turn[k].content) |->
                Frame("content", <<turn[k].content[i]>>)]
             \o (IF k = Len(turn) THEN <<>>
                 ELSE [i \in 1..Len(turn[k].tool_calls) |->
                         Frame("status",
                               <<"Searching ", turn[k].tool_calls[i].name, "...">>)]))
       \o ExpectedFrames(turn, k + 1)

\* C15: in streaming mode the frames sent so far are, in order, a content
\* frame for every non-empty content delta of the model and a status frame
\* naming the tool for every tool started, sent before the tool results are
\* fed back to the model; after END a complete frame carrying the thread id
\* is sent, and the bot text stored for the turn is the concatenation, in
\* order, of the data of the turn's content frames.
C15_FramesFollowTheLoop ==
  /\ [](\A s \in Slots :
          (reqs[s].kind = "stream" /\ (InLoop(reqs[s]) \/ reqs[s].pc = "end")) =>
            reqs[s].frames = ExpectedFrames(TurnMessages(reqs[s].msgs), 1))
  /\ [][\A s \in Slots :
          (reqs[s].kind = "stream" /\ reqs[s].pc = "end" /\ reqs'[s].pc = "done") =>
            /\ Len(reqs'[s].frames) > Len(reqs[s].frames)
            /\ SubSeq(reqs'[s].frames, 1, Len(reqs[s].frames)) = reqs[s].frames
            /\ reqs'[s].frames[Len(reqs[s].frames) + 1] =
                 Frame("complete", reqs[s].thread)
            /\ rows' # rows =>
                 rows' = Append(rows, [chat_id |-> reqs[s].thread,
                                       human |-> reqs[s].message,
                                       bot |-> ContentOf(reqs[s].frames)])]_vars

\* C15 witness: a streamed turn with three content frames around a status
\* frame is complete and stored with the concatenated text
C15_Witness ==
  \E s \in Slots :
    /\ reqs[s].pc = "done"
    /\ reqs[s].kind = "stream"
    /\ reqs[s].frames # <<>>
    /\ reqs[s].frames[Len(reqs[s].frames)] = Frame("complete", reqs[s].thread)
    /\ \E i, j, k \in 1..Len(reqs[s].frames) :
         /\ i < j /\ j < k
         /\ reqs[s].frames[i].type = "content"
         /\ reqs[s].frames[j].type = "status"
         /\ reqs[s].frames[k].type = "content"
    /\ \E r \in 1..Len(rows) :
         /\ rows[r].chat_id = reqs[s].thread
         /\ rows[r].bot = ContentOf(reqs[s].frames)
         /\ Len(rows[r].bot) = 3

\* the row that stores the turn of request s, with the whole answer
StoredTurn(s) ==
  [chat_id |-> reqs[s].thread,
   human |-> reqs[s].message,
   bot |-> IF reqs[s].kind = "stream" THEN ContentOf(reqs[s].frames)
           ELSE LastMessage(s).content]

\* C16: whenever the agent loop of a streaming request has run to END, the
\* turn is stored exactly once with the full answer, whether or not the
\* client still reads the stream; a row is only ever stored for a turn that
\* has reached END, with its full answer.  (A write that the store rejects
\* is left aside.)
C16_StreamPersistsAtEnd ==
  [][/\ \A s \in Slots :
          (/\ reqs[s].kind = "stream"
           /\ reqs[s].pc = "end"
           /\ reqs'[s].pc # "end"
           /\ ~RespondedError(reqs'[s])) =>
            rows' = Append(rows, StoredTurn(s))
     /\ rows' # rows =>
          \E s \in Slots :
            /\ reqs[s].pc = "end"
            /\ reqs'[s].pc = "done"
            /\ rows' = Append(rows, StoredTurn(s))]_vars

\* history a is the beginning of history b
IsPrefix(a, b) == Len(a) <= Len(b) /\ SubSeq(b, 1, Len(a)) = a

\* request s starts its turn: the graph is entered
EntersGraph(s) == reqs[s].pc = "handler" /\ reqs'[s].pc = "agent"

\* C17: the history given to the model at the first AGENT step of a turn is
\* the history that the earlier turns of the thread have accumulated,
\* followed by the new human message; the history of a thread only grows by
\* appending; a turn on a thread leaves the history of every other thread
\* unchanged.
C17_ThreadMemory ==
  [][/\ \A s \in Slots :
          EntersGraph(s) =>
            reqs'[s].msgs = Append(threads[reqs'[s].thread],
                                   HumanMessage(reqs[s].message))
     /\ \A t \in ThreadIds : IsPrefix(threads[t], threads'[t])
     /\ \A t \in ThreadIds :
          threads'[t] # threads[t] =>
            \E s \in Slots : reqs[s].thread = t \/ reqs'[s].thread = t]_vars

\* request s leaves the decision after an AGENT step (a client that
\* disconnects aside)
LeavesDecision(s) ==
  reqs[s].pc = "decide" /\ reqs'[s].pc \notin {"decide", "cancelled"}

\* the model has asked for tools and the provider supports them
AsksForTools(s) == LastMessage(s).tool_calls # <<>> /\ ~ProviderLacksTools

\* the number of TOOLS steps of a turn: the assistant messages followed by
\* tool results
ToolsVisits(turn) ==
  Cardinality({k \in 1..(Len(turn) - 1) :
                 turn[k].type = "ai" /\ turn[k + 1].type = "tool"})

\* C18 (as claimed): no maximum number of AGENT<->TOOLS cycles is enforced:
\* after every AGENT step the turn goes to TOOLS or to END, to END exactly
\* when the output holds no tool-call request or tools are unsupported, so a
\* model that asks for a tool at every AGENT step visits TOOLS again and
\* again.
C18_NoCycleLimit ==
  [][\A s \in Slots :
       LeavesDecision(s) =>
         /\ reqs'[s].pc \in {"tools", "end"}
         /\ reqs'[s].pc = "tools" <=> AsksForTools(s)]_vars

\* C18 (amended): the turn reaches END at the first AGENT step whose output
\* holds no tool-call request (or at the first AGENT step when tools are
\* unsupported), and the graph has no other way to END; the number of
\* AGENT<->TOOLS cycles is bounded by the recursion limit of the graph
\* runtime: a turn that would go on to TOOLS after it has used up its steps
\* is ended with an error instead, and nothing is stored.
C18_CyclesBoundedByRecursionLimit ==
  /\ [](\A s \in Slots :
          reqs[s].msgs # <<>> =>
            2 * ToolsVisits(TurnMessages(reqs[s].msgs)) < RecursionLimit)
  /\ [][\A s \in Slots :
          LeavesDecision(s) =>
            \/ reqs'[s].pc = "end" /\ ~AsksForTools(s)
            \/ /\ reqs'[s].pc = "tools"
               /\ AsksForTools(s)
               /\ 2 * ToolsVisits(TurnMessages(reqs[s].msgs)) + 1 < RecursionLimit
            \/ /\ reqs'[s].pc = "done"
               /\ AsksForTools(s)
               /\ 2 * ToolsVisits(TurnMessages(reqs[s].msgs)) + 1 >= RecursionLimit
               /\ RespondedError(reqs'[s])
               /\ rows' = rows]_vars

\* C18 witness: a streamed turn was ended by the recursion limit after
\* twelve TOOLS steps
C18_Witness ==
  \E s \in Slots :
    /\ reqs[s].pc = "done"
    /\ reqs[s].kind = "stream"
    /\ reqs[s].frames # <<>>
    /\ reqs[s].frames[Len(reqs[s].frames)] =
         Frame("error", <<"Error: ", "Recursion limit reached">>)
    /\ Len(SelectSeq(reqs[s].frames, LAMBDA f : f.type = "status")) = 12
    /\ rows = <<>>

\* the user a request is authenticated as: /chat/message takes no token
Requester(s) == IF reqs[s].kind = "public" THEN "nobody" ELSE UserOf(s)

\* the chat is a non-archived chat of the user
OwnChatOf(user, c) ==
  c \in ChatIds /\ chats[c].exists /\ chats[c].owner = user /\ ~chats[c].archived

\* C19: the agent history and the stored turns of a chat are read or
\* extended only by a request authenticated as the owner of the chat; a
\* request naming a chat id that is not a non-archived chat of the requester
\* is answered 404 without the agent being invoked and without anything
\* being stored.
C19_ThreadFoundByIdAndOwner ==
  [][/\ \A s \in Slots :
          (/\ reqs[s].pc = "handler"
           /\ reqs'[s].pc # "handler"
           /\ reqs[s].chat_id # NoChatId
           /\ ~OwnChatOf(Requester(s), reqs[s].chat_id)) =>
            /\ reqs'[s].pc = "done"
            /\ reqs'[s].status = 404
            /\ threads' = threads
            /\ rows' = rows
     /\ \A c \in ChatIds :
          (threads'[c] # threads[c] \/ \E s \in Slots : EntersGraph(s) /\ reqs'[s].thread = c) =>
            \E s \in Slots :
              /\ reqs'[s].thread = c
              /\ chats'[c].exists
              /\ chats'[c].owner = Requester(s)]_vars

\* C20: every TOOLS step runs each tool-call request of the last assistant
\* message with the request's argument and appends, for each request and in
\* their order, one tool-result message carrying the request's identifier
\* and the returned text; the step after TOOLS is AGENT, so all of these
\* results are in the history when the model is invoked again.
C20_ToolsStepAnswersEveryCall ==
  /\ [][\A s \in Slots :
          (reqs[s].pc = "tools" /\ reqs'[s].pc \notin {"tools", "cancelled"}) =>
            LET calls == LastMessage(s).tool_calls
                n == Len(reqs[s].msgs)
            IN  /\ reqs'[s].pc = "agent"
                /\ Len(reqs'[s].msgs) = n + Len(calls)
                /\ SubSeq(reqs'[s].msgs, 1, n) = reqs[s].msgs
                /\ \A k \in 1..Len(calls) :
                     reqs'[s].msgs[n + k] =
                       [type |-> "tool",
                        content |-> RunTool(docs, calls[k].name, calls[k].arg),
                        tool_calls |-> <<>>,
                        tool_call_id |-> calls[k].id]]_vars
  /\ [](\A s \in Slots :
          (reqs[s].pc \in {"agent", "invoke"} /\ reqs[s].agent_steps > 0) =>
            LET turn == TurnMessages(reqs[s].msgs)
                a == CHOOSE i \in 1..Len(turn) :
                       /\ turn[i].type = "ai"
                       /\ \A j \in (i + 1)..Len(turn) : turn[j].type # "ai"
            IN  /\ turn[a].tool_calls # <<>>
                /\ Len(turn) = a + Len(turn[a].tool_calls)
                /\ \A k \in 1..Len(turn[a].tool_calls) :
                     /\ turn[a + k].type = "tool"
                     /\ turn[a + k].tool_call_id = turn[a].tool_calls[k].id)

\* C20 witness: after a TOOLS step the history ends with the results of the
\* two tool calls of the assistant message, in order, and AGENT is next
C20_Witness ==
  \E s \in Slots :
    /\ reqs[s].pc = "agent"
    /\ Len(reqs[s].msgs) >= 4
    /\ LET n == Len(reqs[s].msgs)
       IN  /\ reqs[s].msgs[n - 2].type = "ai"
           /\ Len(reqs[s].msgs[n - 2].tool_calls) = 2
           /\ reqs[s].msgs[n - 1] =
                ToolMessage(CheckIfDateIsHoliday(docs, <<"n", "o", "v", " ", "1">>), 11)
           /\ reqs[s].msgs[n].type = "tool"
           /\ reqs[s].msgs[n].tool_call_id = 12
           /\ reqs[s].msgs[n].content # <<>>

(***************************************************************************)
(* The settings endpoints: GET /settings/, PUT /settings/ and              *)
(* PUT /settings/provider, each a coroutine that gives up the event loop   *)
(* at its SELECT and at its COMMIT, and the restart of the process         *)
(***************************************************************************)
\* SettingsUpdate.ai_provider left out of the request body
NoProvider == "none"

\* Setting.ai_provider: the column default
DefaultProvider == "ollama"

\* the providers the settings requests of the model ask for
SettingsChoices == {"ollama", "gemini"}

IdleSetting ==
  [pc |-> "idle", op |-> "none", ai_provider |-> NoProvider, found |-> FALSE,
   status |-> 0, error |-> "none"]

\* a settings request answered: 200, or 500 with the exception
SettingAnswered(req, status, error) ==
  [IdleSetting EXCEPT !.pc = "done", !.op = req.op, !.status = status,
                      !.error = error]

SettingsInit ==
  /\ env = ChatEnvironment
  /\ current_provider = InitProvider
  /\ api_keys = InitApiKeys
  /\ probe = NoProbe
  /\ docs = NoDocs
  /\ call = NoCall
  /\ uploads = <<>>
  /\ chats = [c \in {} |-> NoCall]
  /\ threads = [t \in ThreadIds |-> <<>>]
  /\ rows = <<>>
  /\ settings = <<>>
  /\ reqs = [s \in Slots |-> IdleSetting]

\* update_provider_settings up to its first await: set_provider(ai_provider)
UpdateProviderSettingsStart(s, p) ==
  /\ reqs[s].pc \in {"idle", "done"}
  /\ current_provider' = p
  /\ reqs' = [reqs EXCEPT ![s] =
                [IdleSetting EXCEPT !.pc = "select",
                   !.op = "update_provider_settings", !.ai_provider = p]]
  /\ UNCHANGED <<env, api_keys, probe, docs, uploads, call, chats, threads,
                 rows, settings>>

\* update_settings up to its first await
UpdateSettingsStart(s, p) ==
  /\ reqs[s].pc \in {"idle", "done"}
  /\ reqs' = [reqs EXCEPT ![s] =
                [IdleSetting EXCEPT !.pc = "select", !.op = "update_settings",
                                    !.ai_provider = p]]
  /\ UNCHANGED <<provider_vars, probe, docs, uploads, call, chats, threads,
                 rows, settings>>

\* get_settings up to its first await
GetSettingsStart(s) ==
  /\ reqs[s].pc \in {"idle", "done"}
  /\ reqs' = [reqs EXCEPT ![s] =
                [IdleSetting EXCEPT !.pc = "select", !.op = "get_settings"]]
  /\ UNCHANGED <<provider_vars, probe, docs, uploads, call, chats, threads,
                 rows, settings>>

\* select(Setting).order_by(updated_at.desc()) and scalar_one_or_none(), which
\* raises MultipleResultsFound on more than one record; then the handler up
\* to its commit: get_settings returns the record it found, update_settings
\* calls set_provider with the provider it was given
SelectSetting(s) ==
  /\ reqs[s].pc = "select"
  /\ reqs' = [reqs EXCEPT ![s] =
                IF Len(settings) > 1
                THEN SettingAnswered(@, 500, "MultipleResultsFound")
                ELSE IF @.op = "get_settings" /\ settings # <<>>
                THEN SettingAnswered(@, 200, "none")
                ELSE [@ EXCEPT !.pc = "commit", !.found = settings # <<>>]]
  /\ current_provider' =
       IF /\ Len(settings) <= 1
          /\ reqs[s].op = "update_settings"
          /\ reqs[s].ai_provider # NoProvider
       THEN reqs[s].ai_provider
       ELSE current_provider
  /\ UNCHANGED <<env, api_keys, probe, docs, uploads, call, chats, threads,
                 rows, settings>>

\* what the commit of a handler writes: the record it found with its new
\* ai_provider, or a record it added
WrittenSettings(table, req) ==
  IF req.found
  THEN IF req.ai_provider = NoProvider THEN table
       ELSE [table EXCEPT ![1] = req.ai_provider]
  ELSE Append(table, IF req.ai_provider = NoProvider THEN DefaultProvider
                     ELSE req.ai_provider)

\* await session.commit() succeeds and the handler returns
CommitSetting(s) ==
  /\ reqs[s].pc = "commit"
  /\ settings' = WrittenSettings(settings, reqs[s])
  /\ reqs' = [reqs EXCEPT ![s] = SettingAnswered(@, 200, "none")]
  /\ UNCHANGED <<provider_vars, probe, docs, uploads, call, chats, threads, rows>>

\* await session.commit() raises: update_provider_settings rolls back and
\* answers 500, the other two handlers let the exception through
CommitSettingFails(s) ==
  /\ reqs[s].pc = "commit"
  /\ reqs' = [reqs EXCEPT ![s] = SettingAnswered(@, 500, "commit failed")]
  /\ UNCHANGED <<provider_vars, probe, docs, uploads, call, chats, threads,
                 rows, settings>>

\* the process is restarted: llm_provider = LLMProvider() at import, lifespan
\* runs init_db() only; the requests in flight are gone, the table is kept
Restart ==
  /\ current_provider' = InitProvider
  /\ reqs' = [s \in Slots |-> IdleSetting]
  /\ UNCHANGED <<env, api_keys, probe, docs, uploads, call, chats, threads,
                 rows, settings>>

SettingsNext ==
  \/ \E s \in Slots, p \in SettingsChoices : UpdateProviderSettingsStart(s, p)
  \/ \E s \in Slots, p \in SettingsChoices \cup {NoProvider} : UpdateSettingsStart(s, p)
  \/ \E s \in Slots : GetSettingsStart(s)
  \/ \E s \in Slots : SelectSetting(s)
  \/ \E s \in Slots : CommitSetting(s)
  \/ \E s \in Slots : CommitSettingFails(s)
  \/ Restart

SpecSettings == SettingsInit /\ [][SettingsNext]_vars

(***************************************************************************)
(* Claims about the AGENT step, the settings and the stored turns          *)
(***************************************************************************)
\* C21: every AGENT step invokes the model once, on one system instruction
\* followed by the history: the strict instruction with the five tools bound
\* if the provider supports tools, the permissive one with no tool bound if
\* it does not.  The step appends exactly one assistant message, and no
\* system message is ever part of a thread's history.
C21_AgentStep ==
  /\ [][\A s \in Slots :
          (reqs[s].pc = "invoke" /\ reqs'[s].pc = "decide") =>
            /\ reqs'[s].agent_steps = reqs[s].agent_steps + 1
            /\ reqs'[s].input.messages = reqs[s].msgs
            /\ reqs'[s].input.system =
                 IF ProviderLacksTools THEN "permissive" ELSE "strict"
            /\ reqs'[s].input.tools =
                 IF ProviderLacksTools THEN {} ELSE ToolNames
            /\ Cardinality(reqs'[s].input.tools) \in {0, 5}
            /\ Len(reqs'[s].msgs) = Len(reqs[s].msgs) + 1
            /\ SubSeq(reqs'[s].msgs, 1, Len(reqs[s].msgs)) = reqs[s].msgs
            /\ reqs'[s].msgs[Len(reqs'[s].msgs)].type = "ai"
            /\ threads'[reqs[s].thread] = reqs'[s].msgs]_vars
  /\ [](\A t \in ThreadIds : \A i \in 1..Len(threads[t]) :
          threads[t][i].type \in {"human", "ai", "tool"})

\* C21 witness: both branches of the AGENT step have been taken: one turn
\* was given the strict instruction with the tools, another the permissive
\* one without
C21_Witness ==
  /\ \E s \in Slots :
       /\ reqs[s].pc = "decide"
       /\ reqs[s].input.system = "strict"
       /\ reqs[s].input.tools = ToolNames
       /\ reqs[s].input.messages # <<>>
  /\ \E s \in Slots :
       /\ reqs[s].pc = "decide"
       /\ reqs[s].input.system = "permissive"
       /\ reqs[s].input.tools = {}

(***************************************************************************)
(* Claims about the search tools, continued                                *)
(***************************************************************************)
\* the test the specification states for one token
StatedKeep(tok) ==
  \/ tok # <<>> /\ \A i \in 1..Len(tok) : tok[i] \in Digits
  \/ Len(tok) > 2
  \/ tok \in MonthNames

\* the keywords of a query whose tokens are toks, each token first put
\* through form
StatedKeywords(query, form(_)) ==
  LET toks == SplitWhitespace(query)
      kept == SelectSeq([k \in 1..Len(toks) |-> form(toks[k])], StatedKeep)
  IN  IF kept = <<>> THEN <<Lower(query)>> ELSE kept

RECURSIVE WithoutTrailingCommas(_)
WithoutTrailingCommas(tok) ==
  IF tok # <<>> /\ tok[Len(tok)] = ","
  THEN WithoutTrailingCommas(SubSeq(tok, 1, Len(tok) - 1))
  ELSE tok

\* C22 as stated: a token of the query, compared without regard to case, is
\* kept if and only if it is purely numeric, or longer than 2 characters, or
\* a month abbreviation; when none is kept the whole query is the keyword
C22_KeywordsOfRawTokens ==
  call.op = "keywords" =>
    call.result = StatedKeywords(call.arg, LAMBDA tok : Lower(tok))

\* C22 amended: the test is applied to, and the keyword is, the token in
\* lower case WITHOUT ITS TRAILING COMMAS: it is kept if and only if that
\* form is purely numeric, or longer than 2 characters, or a month
\* abbreviation; when none is kept the whole query in lower case is the
\* single keyword
C22_KeywordsOfNormalTokens ==
  call.op = "keywords" =>
    call.result =
      StatedKeywords(call.arg, LAMBDA tok : WithoutTrailingCommas(Lower(tok)))

\* C22 witness: of "a 5," the number is kept without its comma
C22_Witness ==
  /\ call.op = "keywords"
  /\ call.arg = <<"a", " ", "5", ",">>
  /\ call.result = << <<"5">> >>

\* the 0-based numbers of the lines of which some keyword of the query is a
\* substring, whatever the letter case
MatchingLines(lines, query) ==
  {i \in 0..(Len(lines) - 1) :
     \E k \in 1..Len(Keywords(query)) :
        Contains(Keywords(query)[k], Lower(lines[i + 1]) \o <<>>)}

\* the sections of C23: a match with no match in the 2c lines before it opens
\* a group, a match with no match in the 2c lines after it closes one, and
\* the section of a group runs from c lines before its first match to c
\* lines after its last, clamped to the file
StatedSections(lines, matching, c) ==
  LET firsts == SortedSeq({i \in matching :
                   ~\E j \in matching : j < i /\ i - j <= 2 * c})
      lasts == SortedSeq({i \in matching :
                   ~\E j \in matching : j > i /\ j - i <= 2 * c})
  IN  [g \in 1..Len(firsts) |->
         Flatten(SubSeq(lines,
                        (IF firsts[g] - c > 0 THEN firsts[g] - c ELSE 0) + 1,
                        (IF lasts[g] + c < Len(lines) - 1 THEN lasts[g] + c
                                                         ELSE Len(lines) - 1) + 1))]

\* C23: for every readable file, query and context_lines c >= 0, when some
\* line matches, the result of search_file_content is the sections of the
\* groups of matching lines (gap at most 2c inside a group), each exactly the
\* lines from c before its first match to c after its last match, clamped to
\* the file, in ascending order and joined by "\n---\n"; the sections do not
\* overlap, so no line of the file is output twice.
C23_SectionsAreMergedWindows ==
  (/\ call.op = "search_file_content"
   /\ call.file.readable
   /\ MatchingLines(ReadLines(call.file.content), call.arg) # {}) =>
    call.result =
      Join(StatedSections(ReadLines(call.file.content),
                          MatchingLines(ReadLines(call.file.content), call.arg),
                          call.c),
           <<"\n---\n">>)

\* the query check_if_date_is_holiday is said to search with
HolidayQuery(d) == d \o <<" ", "h", "o", "l", "i", "d", "a", "y">>

\* line i (0-based) of the file holds the date and the word holiday, letter
\* case aside
FlaggedAsHoliday(lines, i, d) ==
  /\ Contains(Lower(d) \o <<>>, Lower(lines[i + 1]) \o <<>>)
  /\ Contains(<<"h", "o", "l", "i", "d", "a", "y">>, Lower(lines[i + 1]) \o <<>>)

\* line i with the up to 2 lines before it and the up to 2 lines after it
WindowOf(lines, i) ==
  Flatten(SubSeq(lines, (IF i - 2 > 0 THEN i - 2 ELSE 0) + 1,
                        (IF i + 2 < Len(lines) - 1 THEN i + 2
                                                   ELSE Len(lines) - 1) + 1))

NoHolidayText(d) ==
  <<"No holiday information found for ">> \o d
    \o <<". ", "The related data is not present in the system.">>

\* C24: for every date string d and every Academic category that has a text
\* file, check_if_date_is_holiday(d) returns a text that holds every line of a
\* calendar file with the date flagged as holiday together with the up to 2
\* lines before and after it, and returns the no-holiday-information
\* sentinel naming d when no Academic file has a line matching the query
\* d + " holiday".
C24_HolidayLineWithContext ==
  (call.op = "check_if_date_is_holiday" /\ TextFilesOf(docs.Academic) # <<>>) =>
    LET files == TextFilesOf(docs.Academic)
    IN  /\ \A k \in 1..Len(files) :
             files[k].readable =>
               \A i \in 0..(Len(ReadLines(files[k].content)) - 1) :
                 FlaggedAsHoliday(ReadLines(files[k].content), i, call.arg) =>
                   Contains(WindowOf(ReadLines(files[k].content), i), call.result)
        /\ (\A k \in 1..Len(files) :
              ~SomeLineMatches(files[k], HolidayQuery(call.arg))) =>
             call.result = NoHolidayText(call.arg)

\* C30: for every department string, the empty one included, and every
\* content of the Administrative files, get_university_contact_info never
\* returns the empty string: with a text file in the category the result is
\* at least one contact line or the not-found sentinel naming the department.
C30_ContactInfoNeverEmpty ==
  call.op = "get_university_contact_info" =>
    /\ call.result # <<>>
    /\ TextFilesOf(docs.Administrative) # <<>> =>
         \/ call.result = <<"Contact information for '">> \o call.arg
                            \o <<"' not found. ",
                                 "The related data is not present in the system.">>
         \/ \E k \in 1..Len(TextFilesOf(docs.Administrative)) :
              \E i \in 1..Len(ContactLinesOf(TextFilesOf(docs.Administrative)[k])) :
                 Contains(ContactLinesOf(TextFilesOf(docs.Administrative)[k])[i],
                          call.result)

\* no settings request is between its first and its last statement
NoSettingsRequestInFlight == \A s \in Slots : reqs[s].pc \in {"idle", "done"}

\* C25: whenever no settings request is in flight and the table holds its
\* one settings record, the process-wide current_provider equals the
\* ai_provider of that record: after successful updates, after an update
\* whose commit failed, and after a restart of the process.
C25_ActiveProviderIsStoredProvider ==
  (NoSettingsRequestInFlight /\ Len(settings) = 1) =>
    current_provider = settings[1]

\* C28: after any interleaving of settings requests the table holds at most
\* one record, and no settings request fails because it found several.
C28_AtMostOneSettingsRecord ==
  /\ Len(settings) <= 1
  /\ \A s \in Slots : reqs[s].error # "MultipleResultsFound"

\* the positions of the complete and error frames of a stream
TerminalFrames(frames) ==
  {i \in 1..Len(frames) : frames[i].type \in {"complete", "error"}}

\* C26: every streaming response that the server has finished holds exactly
\* one terminal frame, complete or error, and it is the last frame: no error
\* frame follows a complete frame, also when the write of the turn fails.
C26_OneTerminalFrame ==
  \A s \in Slots :
    (reqs[s].kind = "stream" /\ reqs[s].pc = "done" /\ reqs[s].frames # <<>>) =>
      TerminalFrames(reqs[s].frames) = {Len(reqs[s].frames)}

\* C27: no turn is appended to an archived chat: whenever a message row is
\* stored, by a streaming or a non-streaming request, the chat of the row is
\* not archived at that moment, however the request is interleaved with an
\* archive request for the chat.
C27_NoRowForArchivedChat ==
  [][rows' # rows => ~chats[rows'[Len(rows')].chat_id].archived]_vars

\* the row /chat/prompt stores for the turn of request s: the content of the
\* last message of the run
PromptRow(s) ==
  [chat_id |-> reqs[s].thread, human |-> reqs[s].message,
   bot |-> LastMessage(s).content]

\* C29: for the same thread history, user message and behaviour of the model
\* and the tools, /chat/prompt/stream stores the row /chat/prompt stores:
\* whenever a request of either kind stores its turn, the row is the one
\* /chat/prompt stores for the messages of that run, also when the model
\* has emitted text together with a tool-call request before its answer.
C29_StreamStoresWhatPromptStores ==
  [][\A s \in Slots :
       (reqs[s].pc = "end" /\ reqs'[s].pc = "done" /\ rows' # rows) =>
         rows'[Len(rows')] = PromptRow(s)]_vars

=============================================================================
